---- MODULE Spec2Model ----
(***************************************************************************)
(* State-machine model of the code-model-arena API core: the in-memory     *)
(* rate limiter (lib/rate-limiter.ts), the POST /compare handler           *)
(* (app/api/v1/compare/route.ts), the HuggingFace client                   *)
(* (lib/huggingface.ts) and the GET handlers of /models, /models/{modelId} *)
(* and /health.  Times are milliseconds, as Date.now() gives.              *)
(***************************************************************************)
EXTENDS Integers, Sequences, FiniteSets, TLC

\* ------------------------------------------------------------ constants
MAX_REQUESTS == 10
WINDOW_MS == 10 * 60 * 1000

\* ------------------------------------------------------------ bounds
\* The clock is observed on a finite grid of instants: multiples of half a
\* window, each followed by MaxSkew single milliseconds, so that for a window
\* opened at 0 the instants before resetTime, resetTime itself and
\* resetTime + 1 ms all occur.
MaxHalfWindows == 2
MaxSkew == 1
\* check() calls made in one window beyond the MAX_REQUESTS admitted ones.
MaxOver == 2
\* Cold-start delays the clock of one compare request runs through.
MaxSleeps == 1
\* Longest modelIds array a request body carries.
MaxBodyIds == 4

\* The invocations of the POST handler that may be in progress together.
Handlers == {"h1", "h2"}

Identifiers == {"ip1", "unknown"}

Times == {k * (WINDOW_MS \div 2) + e : k \in 0..MaxHalfWindows, e \in 0..MaxSkew}

VARIABLES
    now,        \* Date.now()
    requests,   \* RateLimiter.requests: Map<string, RateLimitEntry>
    lastCheck,  \* the latest call of check(): its argument, time and result
    window,     \* per identifier: the calls made since its window was opened
    probe,      \* an observer counting the admitted calls of one time interval
    shadow,     \* the reference run: the same calls of check(), never swept
    compared,   \* per identifier: the /compare requests admitted in its window
    apiKey,     \* whether process.env.HUGGINGFACE_API_KEY is set
    handlers    \* the invocations of the route handlers

vars == <<now, requests, lastCheck, window, probe, shadow, compared, apiKey, handlers>>

\* ------------------------------------------------------------ rate limiter
NoWindow == [open |-> -1, calls |-> 0, admitted |-> 0]
NoProbe == [id |-> "", since |-> -1, n |-> 0]
NoShadow == [requests |-> << >>,
             info |-> [allowed |-> FALSE, remaining |-> 0, resetTime |-> 0]]
NoCheck == [id |-> "", at |-> -1, prevOpen |-> -1,
            info |-> [allowed |-> FALSE, remaining |-> 0, resetTime |-> 0]]

\* Map.set(key, value)
MapSet(map, key, value) ==
    [k \in DOMAIN map \cup {key} |-> IF k = key THEN value ELSE map[k]]

\* Map.delete of every key in keys
MapDelete(map, keys) == [k \in DOMAIN map \ keys |-> map[k]]

\* check() comparing the count with > where the code has >=.
check_admitsOneMore(map, identifier, t) ==
    IF identifier \notin DOMAIN map \/ t > map[identifier].resetTime
    THEN [requests |-> MapSet(map, identifier,
                              [count |-> 1, resetTime |-> t + WINDOW_MS]),
          info |-> [allowed |-> TRUE, remaining |-> MAX_REQUESTS - 1,
                    resetTime |-> t + WINDOW_MS]]
    ELSE IF map[identifier].count > MAX_REQUESTS
    THEN [requests |-> map,
          info |-> [allowed |-> FALSE, remaining |-> 0,
                    resetTime |-> map[identifier].resetTime]]
    ELSE [requests |-> MapSet(map, identifier,
                              [count |-> map[identifier].count + 1,
                               resetTime |-> map[identifier].resetTime]),
          info |-> [allowed |-> TRUE,
                    remaining |-> MAX_REQUESTS - (map[identifier].count + 1),
                    resetTime |-> map[identifier].resetTime]]

\* check() without the statement entry.count += 1.
check_noIncrement(map, identifier, t) ==
    IF identifier \notin DOMAIN map \/ t > map[identifier].resetTime
    THEN [requests |-> MapSet(map, identifier,
                              [count |-> 1, resetTime |-> t + WINDOW_MS]),
          info |-> [allowed |-> TRUE, remaining |-> MAX_REQUESTS - 1,
                    resetTime |-> t + WINDOW_MS]]
    ELSE IF map[identifier].count >= MAX_REQUESTS
    THEN [requests |-> map,
          info |-> [allowed |-> FALSE, remaining |-> 0,
                    resetTime |-> map[identifier].resetTime]]
    ELSE [requests |-> map,
          info |-> [allowed |-> TRUE,
                    remaining |-> MAX_REQUESTS - map[identifier].count,
                    resetTime |-> map[identifier].resetTime]]

\* check() keeping one entry for all callers instead of one per identifier.
check_oneSharedEntry(map, identifier, t) ==
    IF "unknown" \notin DOMAIN map \/ t > map["unknown"].resetTime
    THEN [requests |-> MapSet(map, "unknown",
                              [count |-> 1, resetTime |-> t + WINDOW_MS]),
          info |-> [allowed |-> TRUE, remaining |-> MAX_REQUESTS - 1,
                    resetTime |-> t + WINDOW_MS]]
    ELSE IF map["unknown"].count >= MAX_REQUESTS
    THEN [requests |-> map,
          info |-> [allowed |-> FALSE, remaining |-> 0,
                    resetTime |-> map["unknown"].resetTime]]
    ELSE [requests |-> MapSet(map, "unknown",
                              [count |-> map["unknown"].count + 1,
                               resetTime |-> map["unknown"].resetTime]),
          info |-> [allowed |-> TRUE,
                    remaining |-> MAX_REQUESTS - (map["unknown"].count + 1),
                    resetTime |-> map["unknown"].resetTime]]

\* check() with a sliding window: every admitted call moves the expiry.
check_slides(map, identifier, t) ==
    IF identifier \notin DOMAIN map \/ t > map[identifier].resetTime
    THEN [requests |-> MapSet(map, identifier,
                              [count |-> 1, resetTime |-> t + WINDOW_MS]),
          info |-> [allowed |-> TRUE, remaining |-> MAX_REQUESTS - 1,
                    resetTime |-> t + WINDOW_MS]]
    ELSE IF map[identifier].count >= MAX_REQUESTS
    THEN [requests |-> map,
          info |-> [allowed |-> FALSE, remaining |-> 0,
                    resetTime |-> map[identifier].resetTime]]
    ELSE [requests |-> MapSet(map, identifier,
                              [count |-> map[identifier].count + 1,
                               resetTime |-> t + WINDOW_MS]),
          info |-> [allowed |-> TRUE,
                    remaining |-> MAX_REQUESTS - (map[identifier].count + 1),
                    resetTime |-> map[identifier].resetTime]]

\* check() whose rejection starts the block again from the rejected call.
check_rejectExtends(map, identifier, t) ==
    IF identifier \notin DOMAIN map \/ t > map[identifier].resetTime
    THEN [requests |-> MapSet(map, identifier,
                              [count |-> 1, resetTime |-> t + WINDOW_MS]),
          info |-> [allowed |-> TRUE, remaining |-> MAX_REQUESTS - 1,
                    resetTime |-> t + WINDOW_MS]]
    ELSE IF map[identifier].count >= MAX_REQUESTS
    THEN [requests |-> MapSet(map, identifier,
                              [count |-> map[identifier].count,
                               resetTime |-> t + WINDOW_MS]),
          info |-> [allowed |-> FALSE, remaining |-> 0,
                    resetTime |-> map[identifier].resetTime]]
    ELSE [requests |-> MapSet(map, identifier,
                              [count |-> map[identifier].count + 1,
                               resetTime |-> map[identifier].resetTime]),
          info |-> [allowed |-> TRUE,
                    remaining |-> MAX_REQUESTS - (map[identifier].count + 1),
                    resetTime |-> map[identifier].resetTime]]

\* check() that reports the remaining quota as it was before the call.
check_remainingBefore(map, identifier, t) ==
    IF identifier \notin DOMAIN map \/ t > map[identifier].resetTime
    THEN [requests |-> MapSet(map, identifier,
                              [count |-> 1, resetTime |-> t + WINDOW_MS]),
          info |-> [allowed |-> TRUE, remaining |-> MAX_REQUESTS - 1,
                    resetTime |-> t + WINDOW_MS]]
    ELSE IF map[identifier].count >= MAX_REQUESTS
    THEN [requests |-> map,
          info |-> [allowed |-> FALSE, remaining |-> 0,
                    resetTime |-> map[identifier].resetTime]]
    ELSE [requests |-> MapSet(map, identifier,
                              [count |-> map[identifier].count + 1,
                               resetTime |-> map[identifier].resetTime]),
          info |-> [allowed |-> TRUE,
                    remaining |-> MAX_REQUESTS - map[identifier].count,
                    resetTime |-> map[identifier].resetTime]]

\* RateLimiter.check(identifier) run at time t on the table map: the table
\* it leaves and the RateLimitInfo it returns.
check(map, identifier, t) ==
    IF identifier \notin DOMAIN map \/ t > map[identifier].resetTime
    THEN [requests |-> MapSet(map, identifier,
                              [count |-> 1, resetTime |-> t + WINDOW_MS]),
          info |-> [allowed |-> TRUE, remaining |-> MAX_REQUESTS - 1,
                    resetTime |-> t + WINDOW_MS]]
    ELSE IF map[identifier].count >= MAX_REQUESTS
    THEN [requests |-> map,
          info |-> [allowed |-> FALSE, remaining |-> 0,
                    resetTime |-> map[identifier].resetTime]]
    ELSE [requests |-> MapSet(map, identifier,
                              [count |-> map[identifier].count + 1,
                               resetTime |-> map[identifier].resetTime]),
          info |-> [allowed |-> TRUE,
                    remaining |-> MAX_REQUESTS - (map[identifier].count + 1),
                    resetTime |-> map[identifier].resetTime]]

\* cleanup() that removes an entry at the instant of its resetTime already.
cleanup_removesAtExpiry(map, t) ==
    MapDelete(map, {k \in DOMAIN map : t >= map[k].resetTime})

\* cleanup() with the comparison turned round: it removes the open windows.
cleanup_removesOpen(map, t) ==
    MapDelete(map, {k \in DOMAIN map : t < map[k].resetTime})

\* RateLimiter.cleanup() run at time t
cleanup(map, t) == MapDelete(map, {k \in DOMAIN map : t > map[k].resetTime})

\* The observer's account of one call of check(id) at time t with result
\* info: a window is the span from the call that opened it, at time open,
\* through open + WINDOW_MS.
WindowAfter(w, t, info) ==
    IF w.open = -1 \/ t > w.open + WINDOW_MS
    THEN [open |-> t, calls |-> 1, admitted |-> IF info.allowed THEN 1 ELSE 0]
    ELSE [open |-> w.open, calls |-> w.calls + 1,
          admitted |-> w.admitted + IF info.allowed THEN 1 ELSE 0]

\* The interval observer: it may start an interval at any admitted call, and
\* counts the admitted calls of that identifier up to WINDOW_MS later.
ProbeAfter(p, id, t, info, start) ==
    IF start /\ info.allowed THEN [id |-> id, since |-> t, n |-> 1]
    ELSE IF p.id = id /\ info.allowed /\ t - p.since <= WINDOW_MS
    THEN [p EXCEPT !.n = p.n + 1]
    ELSE p

\* checkRateLimit whose write to the table is lost whenever another
\* invocation of the handler is suspended at an await.
checkRateLimit_lostUpdate(identifier, start) ==
    LET r == check(requests, identifier, now) IN
    /\ now <= window[identifier].open + WINDOW_MS
          => window[identifier].calls < MAX_REQUESTS + MaxOver
    /\ requests' = IF \E h \in DOMAIN handlers : handlers[h].pc \in {"json", "all"}
                   THEN requests ELSE r.requests
    /\ lastCheck' = [id |-> identifier, at |-> now,
                     prevOpen |-> window[identifier].open,
                     info |-> r.info]
    /\ window' = [window EXCEPT
                    ![identifier] = WindowAfter(window[identifier], now, r.info)]
    /\ probe' = ProbeAfter(probe, identifier, now, r.info, start)

\* checkRateLimit(identifier): the call, and what the observers record of it.
checkRateLimit(identifier, start) ==
    LET r == check(requests, identifier, now) IN
    /\ now <= window[identifier].open + WINDOW_MS
          => window[identifier].calls < MAX_REQUESTS + MaxOver
    /\ requests' = r.requests
    /\ lastCheck' = [id |-> identifier, at |-> now,
                     prevOpen |-> window[identifier].open,
                     info |-> r.info]
    /\ window' = [window EXCEPT
                    ![identifier] = WindowAfter(window[identifier], now, r.info)]
    /\ probe' = ProbeAfter(probe, identifier, now, r.info, start)

\* ------------------------------------------------------------ catalog
\* data/models.json, read through lib/models.ts.  A live model carries the
\* provider's model identifier, kept as the segments that '/' separates.
models ==
    << [id |-> "codellama-7b", name |-> "CodeLlama 7B", type |-> "live",
        modelId |-> <<"codellama", "CodeLlama-7b-hf">>],
       [id |-> "starcoder", name |-> "StarCoder", type |-> "live",
        modelId |-> <<"bigcode", "starcoder">>],
       [id |-> "gpt-4", name |-> "GPT-4", type |-> "static",
        modelId |-> << >>] >>

\* getModelById(id): <<model>>, or << >> for undefined
getModelById(id) ==
    LET found == SelectSeq(models, LAMBDA m : m.id = id) IN
    IF found = << >> THEN << >> ELSE <<Head(found)>>

\* A validation that passes every identifier on as valid.
validateModelIds_acceptsAll(ids) == [valid |-> ids, invalid |-> << >>]

\* A validation that drops the identifiers it cannot resolve.
validateModelIds_dropsUnknown(ids) ==
    [valid |-> SelectSeq(ids, LAMBDA id : getModelById(id) # << >>),
     invalid |-> << >>]

\* A validation that puts each identifier at the front of its list.
validateModelIds_unshift(ids) ==
    LET valid == SelectSeq(ids, LAMBDA id : getModelById(id) # << >>)
        invalid == SelectSeq(ids, LAMBDA id : getModelById(id) = << >>)
    IN  [valid |-> [i \in 1..Len(valid) |-> valid[Len(valid) + 1 - i]],
         invalid |-> [i \in 1..Len(invalid) |-> invalid[Len(invalid) + 1 - i]]]

\* validateModelIds(ids)
validateModelIds(ids) ==
    [valid |-> SelectSeq(ids, LAMBDA id : getModelById(id) # << >>),
     invalid |-> SelectSeq(ids, LAMBDA id : getModelById(id) = << >>)]

\* ------------------------------------------------------------ provider client
COLD_START_MS == 60000
DEFAULT_MAX_TOKENS == 256
MAX_PROMPT == 10000
MAX_MODELS == 3
MAX_TOKENS == 4096

\* A token count that rounds down.
estimateTokens_floor(text) == Len(text) \div 4

\* estimateTokens(text) = Math.ceil(text.length / 4)
estimateTokens(text) == (Len(text) + 3) \div 4

\* Math.ceil(a / b) for b > 0
Ceil(a, b) == -((-a) \div b)

NoResult == [status |-> "loading"]
ZeroMetrics == [totalTime |-> 0, tokenCount |-> 0, tokensPerSecond |-> <<0, 1>>]

\* The ModelResult of a failure.  error is <<message>>, << >> when absent.
ErrorResult(modelId, modelName, message) ==
    [modelId |-> modelId, modelName |-> modelName, output |-> "",
     metrics |-> ZeroMetrics, error |-> <<message>>, status |-> "error"]

\* queryModel's success return.  totalTime is kept in milliseconds (the code
\* divides by 1000), tokensPerSecond as the fraction <<numerator, denominator>>.
SuccessResult(modelId, modelName, output, totalTime) ==
    [modelId |-> modelId, modelName |-> modelName, output |-> output,
     metrics |-> [totalTime |-> totalTime,
                  tokenCount |-> estimateTokens(output),
                  tokensPerSecond |->
                      IF totalTime > 0
                      THEN <<estimateTokens(output) * 1000, totalTime>>
                      ELSE <<0, 1>>],
     error |-> << >>, status |-> "success"]

\* The string whose split('/') is segments.
RECURSIVE joinSlash(_)
joinSlash(segments) ==
    IF segments = << >> THEN ""
    ELSE IF Len(segments) = 1 THEN segments[1]
    ELSE segments[1] \o "/" \o joinSlash(Tail(segments))

\* modelId.split('/').pop() || modelId
modelNameOf(segments) ==
    IF segments # << >> /\ segments[Len(segments)] # ""
    THEN segments[Len(segments)] ELSE joinSlash(segments)

\* The state of one async callback of valid.map(...): its promise and, while
\* it is pending inside queryHF, the locals of queryHF.
Settled(job, state, result) ==
    [job EXCEPT !.pc = "settled", !.state = state, !.result = result,
                !.startTime = -1, !.wake = -1]

\* queryModel without its try/catch: the error leaves the callback.
queryModelCatch_rethrows(job, message) == Settled(job, "rejected", NoResult)

\* A catch block that returns the error record without the description.
queryModelCatch_noMessage(job, message) ==
    Settled(job, "fulfilled",
            [ErrorResult(joinSlash(job.hfId), modelNameOf(job.hfId), message)
                EXCEPT !.error = << >>])

\* queryModel's catch block: every error of queryHF becomes an error record.
queryModelCatch(job, message) ==
    Settled(job, "fulfilled",
            ErrorResult(joinSlash(job.hfId), modelNameOf(job.hfId), message))

\* queryModel's return after queryHF resolved at time t with output text.
queryModelReturn(job, output, t) ==
    Settled(job, "fulfilled",
            SuccessResult(joinSlash(job.hfId), modelNameOf(job.hfId), output,
                          t - job.startTime))

\* data[0]?.generated_text || ''
generatedText(data) == IF data = << >> THEN "" ELSE data[1]

\* errorData.error || fallback
errorText(resp, fallback) ==
    IF resp.error = << >> \/ resp.error[1] = "" THEN fallback ELSE resp.error[1]

\* What the upstream can answer to one fetch: the fetch itself fails, or an
\* HTTP response with a status and a JSON body of the declared type
\* (HFResponse[] as data for 200, HFError as error otherwise).
Thrown == [kind |-> "throw", status |-> 0, data |-> << >>, error |-> << >>]
Http(status, data, error) ==
    [kind |-> "http", status |-> status, data |-> data, error |-> error]
Outputs == {"abcde"}
Responses ==
    {Thrown}
    \cup {Http(200, d, << >>) : d \in {<< >>} \cup {<<o>> : o \in Outputs}}
    \cup {Http(s, << >>, e) : s \in {500, 503}, e \in {<< >>, <<"Model too busy">>}}

\* An answer of which queryHF reads the status and leaves the body unread.
statusOnly(resp) == [resp EXCEPT !.data = << >>, !.error = << >>]

\* The request queryHF sends upstream: the URL's model and the JSON body.
fetchRequest(job) ==
    [model |-> joinSlash(job.hfId), inputs |-> job.promptLen,
     max_new_tokens |-> job.maxTokens]

\* The empty job of a callback, before its first step.
NewJob(modelId, validated) ==
    [modelId |-> modelId, hfId |-> << >>, promptLen |-> validated.promptLen,
     maxTokens |-> validated.maxTokens, pc |-> "fetch", state |-> "pending",
     startTime |-> -1, wake |-> -1, calls |-> 0, sleeps |-> 0,
     sent |-> << >>, seen |-> << >>, result |-> NoResult]

\* A callback that sends every catalog entry to the provider.
dispatch_queriesStatic(modelId, validated, t, key) ==
    LET model == getModelById(modelId)
        job == NewJob(modelId, validated)
    IN  IF model = << >>
        THEN Settled(job, "fulfilled",
                     ErrorResult(modelId, modelId, "Model not found"))
        ELSE IF ~key
        THEN queryModelCatch([job EXCEPT !.hfId = model[1].modelId],
                             "HUGGINGFACE_API_KEY is not configured")
        ELSE [job EXCEPT !.hfId = model[1].modelId, !.startTime = t,
                         !.calls = 1,
                         !.sent = <<fetchRequest(
                                      [job EXCEPT !.hfId = model[1].modelId])>>]

\* A client that sends its request without looking at the credential.
dispatch_ignoresKey(modelId, validated, t, key) ==
    LET model == getModelById(modelId)
        job == NewJob(modelId, validated)
    IN  IF model = << >>
        THEN Settled(job, "fulfilled",
                     ErrorResult(modelId, modelId, "Model not found"))
        ELSE IF model[1].type = "static"
        THEN Settled(job, "fulfilled",
                     ErrorResult(model[1].id, model[1].name,
                         "Static benchmarks cannot be queried live. They display benchmark scores only."))
        ELSE [job EXCEPT !.hfId = model[1].modelId, !.startTime = t,
                         !.calls = 1,
                         !.sent = <<fetchRequest(
                                      [job EXCEPT !.hfId = model[1].modelId])>>]

\* The callback of valid.map for one identifier of the validated body, run
\* at time t up to its first await: a settled record, or a pending fetch.
\* sent logs the requests sent upstream, seen what was read of the answers.
dispatch(modelId, validated, t, key) ==
    LET model == getModelById(modelId)
        job == NewJob(modelId, validated)
    IN  IF model = << >>
        THEN Settled(job, "fulfilled",
                     ErrorResult(modelId, modelId, "Model not found"))
        ELSE IF model[1].type = "static"
        THEN Settled(job, "fulfilled",
                     ErrorResult(model[1].id, model[1].name,
                         "Static benchmarks cannot be queried live. They display benchmark scores only."))
        ELSE IF ~key
        THEN queryModelCatch([job EXCEPT !.hfId = model[1].modelId],
                             "HUGGINGFACE_API_KEY is not configured")
        ELSE [job EXCEPT !.hfId = model[1].modelId, !.startTime = t,
                         !.calls = 1,
                         !.sent = <<fetchRequest(
                                      [job EXCEPT !.hfId = model[1].modelId])>>]

\* A client that retries on every non-success status.
afterFetch_retriesAnyFailure(job, resp, t) ==
    LET j == [job EXCEPT !.seen = Append(job.seen, resp)] IN
    IF resp.kind = "throw" THEN queryModelCatch(j, "fetch failed")
    ELSE IF resp.status # 200
    THEN [j EXCEPT !.pc = "sleep", !.wake = t + COLD_START_MS,
                   !.sleeps = job.sleeps + 1]
    ELSE queryModelReturn(j, generatedText(resp.data), t)

\* queryHF after the first fetch settled with resp at time t.
afterFetch(job, resp, t) ==
    LET j == [job EXCEPT !.seen = Append(job.seen, resp)] IN
    IF resp.kind = "throw" THEN queryModelCatch(j, "fetch failed")
    ELSE IF resp.status = 503
    THEN [job EXCEPT !.pc = "sleep", !.wake = t + COLD_START_MS,
                     !.sleeps = job.sleeps + 1,
                     !.seen = Append(job.seen, statusOnly(resp))]
    ELSE IF resp.status # 200
    THEN queryModelCatch(j,
             errorText(resp, "HF API error: " \o ToString(resp.status)))
    ELSE queryModelReturn(j, generatedText(resp.data), t)

\* A retry that starts the measurement of the elapsed time again.
afterSleep_restartsClock(job) ==
    [job EXCEPT !.pc = "retry", !.wake = -1, !.calls = job.calls + 1,
                !.startTime = job.wake,
                !.sent = Append(job.sent, fetchRequest(job))]

\* queryHF after sleep(60000): the identical fetch is issued again.
afterSleep(job) ==
    [job EXCEPT !.pc = "retry", !.wake = -1, !.calls = job.calls + 1,
                !.sent = Append(job.sent, fetchRequest(job))]

\* A client that treats a second 503 as the first one.
afterRetry_sleepsAgain(job, resp, t) ==
    LET j == [job EXCEPT !.seen = Append(job.seen, resp)] IN
    IF resp.kind = "throw" THEN queryModelCatch(j, "fetch failed")
    ELSE IF resp.status = 503
    THEN [j EXCEPT !.pc = "sleep", !.wake = t + COLD_START_MS,
                   !.sleeps = job.sleeps + 1]
    ELSE IF resp.status # 200
    THEN queryModelCatch(j, errorText(resp, "Model unavailable after retry"))
    ELSE queryModelReturn(j, generatedText(resp.data), t)

\* queryHF after the retried fetch settled with resp at time t.
afterRetry(job, resp, t) ==
    LET j == [job EXCEPT !.seen = Append(job.seen, resp)] IN
    IF resp.kind = "throw" THEN queryModelCatch(j, "fetch failed")
    ELSE IF resp.status # 200
    THEN queryModelCatch(j, errorText(resp, "Model unavailable after retry"))
    ELSE queryModelReturn(j, generatedText(resp.data), t)

\* ------------------------------------------------------------ POST /compare
NotJson == [json |-> FALSE, promptLen |-> 0, modelIds |-> << >>, maxTokens |-> << >>]
Body(promptLen, modelIds, maxTokens) ==
    [json |-> TRUE, promptLen |-> promptLen, modelIds |-> modelIds,
     maxTokens |-> maxTokens]
NoBody == [json |-> FALSE, promptLen |-> -1, modelIds |-> << >>, maxTokens |-> << >>]

\* A JSON number, as the fraction num / den with den > 0.
Num(num, den) == [num |-> num, den |-> den]
isInt(v) == v.num % v.den = 0
lessThan(v, n) == v.num < n * v.den
greaterThan(v, n) == v.num > n * v.den

\* A schema without the checks of maxTokens.
schemaIssue_maxTokensUnchecked(body) ==
    IF body.promptLen < 1 THEN <<"Prompt cannot be empty">>
    ELSE IF body.promptLen > MAX_PROMPT
    THEN <<"Prompt cannot exceed 10000 characters">>
    ELSE IF Len(body.modelIds) < 1 THEN <<"At least one model must be selected">>
    ELSE IF Len(body.modelIds) > MAX_MODELS
    THEN <<"Maximum 3 models can be selected">>
    ELSE << >>

\* CompareRequestSchema.parse(body): <<message>> of the first issue, in the
\* order of the schema's fields and of each field's checks, or << >> when the
\* body is accepted.  maxTokens is << >> when omitted, else <<number>>.
schemaIssue(body) ==
    IF body.promptLen < 1 THEN <<"Prompt cannot be empty">>
    ELSE IF body.promptLen > MAX_PROMPT
    THEN <<"Prompt cannot exceed 10000 characters">>
    ELSE IF Len(body.modelIds) < 1 THEN <<"At least one model must be selected">>
    ELSE IF Len(body.modelIds) > MAX_MODELS
    THEN <<"Maximum 3 models can be selected">>
    ELSE IF body.maxTokens # << >> /\ ~isInt(body.maxTokens[1])
    THEN <<"Expected integer, received float">>
    ELSE IF body.maxTokens # << >> /\ lessThan(body.maxTokens[1], 1)
    THEN <<"Number must be greater than or equal to 1">>
    ELSE IF body.maxTokens # << >> /\ greaterThan(body.maxTokens[1], MAX_TOKENS)
    THEN <<"Number must be less than or equal to 4096">>
    ELSE << >>

\* The value CompareRequestSchema.parse returns for an accepted body.
schemaValue(body) ==
    [promptLen |-> body.promptLen, modelIds |-> body.modelIds,
     maxTokens |-> IF body.maxTokens = << >> THEN DEFAULT_MAX_TOKENS
                   ELSE body.maxTokens[1].num \div body.maxTokens[1].den]

NoResponse == [status |-> 0, code |-> "", message |-> <<"", << >>>>,
               retryAfter |-> << >>, resetTime |-> << >>,
               results |-> << >>,
               metadata |-> [totalModels |-> 0, successfulModels |-> 0,
                             failedModels |-> 0],
               liveModels |-> << >>, staticBenchmarks |-> << >>,
               model |-> << >>, health |-> << >>]

ErrorResponse(status, code, text, ids) ==
    [NoResponse EXCEPT !.status = status, !.code = code,
                       !.message = <<text, ids>>]

\* The 429 response: retryAfter is computed from a second reading of the clock.
RateLimitResponse(info, t) ==
    [ErrorResponse(429, "RATE_LIMIT_EXCEEDED",
                   "Maximum 10 requests per 10 minutes", << >>)
        EXCEPT !.retryAfter = <<Ceil(info.resetTime - t, 1000)>>,
               !.resetTime = <<info.resetTime>>]

\* results.filter(r => r.status === status).length
countStatus(results, status) ==
    Cardinality({i \in 1..Len(results) : results[i].status = status})

\* A response that counts as successful the records with a non-empty output.
CompareResponse_countsOutputs(results) ==
    [NoResponse EXCEPT !.status = 200, !.results = results,
        !.metadata = [totalModels |-> Len(results),
                      successfulModels |->
                          Cardinality({i \in 1..Len(results) :
                                          results[i].output # ""}),
                      failedModels |-> countStatus(results, "error")]]

\* A handler that passes on the upstream's 503 when no model answered.
CompareResponse_unavailable(results) ==
    [NoResponse EXCEPT
        !.status = IF countStatus(results, "success") = 0
                      /\ \E i \in 1..Len(results) :
                             results[i].error = <<"Model unavailable after retry">>
                   THEN 503 ELSE 200,
        !.results = results,
        !.metadata = [totalModels |-> Len(results),
                      successfulModels |-> countStatus(results, "success"),
                      failedModels |-> countStatus(results, "error")]]

\* The 200 response built from the value of Promise.all.
CompareResponse(results) ==
    [NoResponse EXCEPT !.status = 200, !.results = results,
        !.metadata = [totalModels |-> Len(results),
                      successfulModels |-> countStatus(results, "success"),
                      failedModels |-> countStatus(results, "error")]]

\* A join that keeps the successful records only.
PromiseAll_dropsErrors(jobs) ==
    SelectSeq([i \in 1..Len(jobs) |-> jobs[i].result],
              LAMBDA r : r.status = "success")

\* A join that lists the successful records before the failed ones.
PromiseAll_successFirst(jobs) ==
    SelectSeq([i \in 1..Len(jobs) |-> jobs[i].result],
              LAMBDA r : r.status = "success")
    \o SelectSeq([i \in 1..Len(jobs) |-> jobs[i].result],
                 LAMBDA r : r.status # "success")

\* The value of Promise.all(modelPromises): the jobs' values by position.
PromiseAll(jobs) == [i \in 1..Len(jobs) |-> jobs[i].result]

\* One invocation of a route handler: its route, where it is suspended, its
\* request (client, body or query), the modelIds of the validated body, its
\* jobs and the response it returned.
Idle == [pc |-> "idle", route |-> "", ip |-> "", body |-> NoBody,
         query |-> << >>, modelIds |-> << >>, jobs |-> << >>,
         response |-> NoResponse]

\* The handler from the resolution of request.json() to await Promise.all, or
\* to the response it returns before that.
parseAndDispatch(h, t, key) ==
    IF ~h.body.json
    THEN [h EXCEPT !.pc = "sent",
            !.response = ErrorResponse(500, "INTERNAL_ERROR",
                                       "An unexpected error occurred", << >>)]
    ELSE IF schemaIssue(h.body) # << >>
    THEN [h EXCEPT !.pc = "sent",
            !.response = ErrorResponse(400, "VALIDATION_ERROR",
                                       schemaIssue(h.body)[1], << >>)]
    ELSE LET validated == schemaValue(h.body)
             ids == validateModelIds(validated.modelIds)
             jobs == [i \in 1..Len(ids.valid) |->
                         dispatch(ids.valid[i], validated, t, key)]
         IN  IF Len(ids.invalid) > 0
             THEN [h EXCEPT !.pc = "sent",
                     !.response = ErrorResponse(400, "VALIDATION_ERROR",
                                      "Invalid model IDs: ", ids.invalid)]
             ELSE IF Len(ids.valid) = 0
             THEN [h EXCEPT !.pc = "sent",
                     !.response = ErrorResponse(400, "VALIDATION_ERROR",
                         "At least one valid model must be selected", << >>)]
             ELSE [h EXCEPT !.pc = "all", !.modelIds = validated.modelIds,
                            !.jobs = jobs]


\* ------------------------------------------------------------ GET /models
\* searchParams.get(name): Null when the parameter is absent, else its text;
\* for limit and offset the text is kept as the number Number(text) gives,
\* NotANumber when it gives NaN.
Null == [kind |-> "null", text |-> "", n |-> 0]
Text(text) == [kind |-> "text", text |-> text, n |-> 0]
Digits(n) == [kind |-> "digits", text |-> "", n |-> n]
NotANumber == [kind |-> "nan", text |-> "", n |-> 0]

Query(type, limit, offset) == [type |-> type, limit |-> limit, offset |-> offset]

\* z.coerce.number(): Number(value), <<n>> or << >> for NaN.  Number(null) = 0.
coerceNumber(v) ==
    IF v.kind = "nan" THEN << >> ELSE IF v.kind = "digits" THEN <<v.n>> ELSE <<0>>

LIMIT_MAX == 100
LIMIT_DEFAULT == 20

\* ModelFilterSchema.parse(params): <<message>> of the first issue, in the
\* order of the schema's fields, or << >>.  .optional() and .default() accept
\* undefined only, and searchParams.get gives null for an absent parameter.
modelFilterIssue(q) ==
    IF q.type.kind = "null" THEN <<"Expected 'live' | 'static', received null">>
    ELSE IF q.type.text \notin {"live", "static"}
    THEN <<"Invalid enum value. Expected 'live' | 'static'">>
    ELSE IF coerceNumber(q.limit) = << >> THEN <<"Expected number, received nan">>
    ELSE IF coerceNumber(q.limit)[1] < 1
    THEN <<"Number must be greater than or equal to 1">>
    ELSE IF coerceNumber(q.limit)[1] > LIMIT_MAX
    THEN <<"Number must be less than or equal to 100">>
    ELSE IF coerceNumber(q.offset) = << >> THEN <<"Expected number, received nan">>
    ELSE IF coerceNumber(q.offset)[1] < 0
    THEN <<"Number must be greater than or equal to 0">>
    ELSE << >>

\* The value ModelFilterSchema.parse returns for accepted params.
modelFilterValue(q) ==
    [type |-> q.type.text, limit |-> coerceNumber(q.limit)[1],
     offset |-> coerceNumber(q.offset)[1]]

getLiveModels == SelectSeq(models, LAMBDA m : m.type = "live")
getStaticModels == SelectSeq(models, LAMBDA m : m.type = "static")

\* A slice that takes the element at position end as well.
slice_inclusiveEnd(arr, start, end) ==
    [i \in 1..((IF end + 1 < Len(arr) THEN end + 1 ELSE Len(arr))
               - (IF start < Len(arr) THEN start ELSE Len(arr))) |->
        arr[start + i]]

\* Array.prototype.slice(start, end) for 0 <= start <= end
slice(arr, start, end) ==
    [i \in 1..((IF end < Len(arr) THEN end ELSE Len(arr))
               - (IF start < Len(arr) THEN start ELSE Len(arr))) |->
        arr[start + i]]

\* GET /models after admission: the response for the query q.
listModels(q) ==
    LET validated == modelFilterValue(q)
        offset == IF validated.offset # 0 THEN validated.offset ELSE 0
        limit == IF validated.limit # 0 THEN validated.limit ELSE LIMIT_DEFAULT
    IN  IF modelFilterIssue(q) # << >>
        THEN ErrorResponse(400, "VALIDATION_ERROR", modelFilterIssue(q)[1], << >>)
        ELSE [NoResponse EXCEPT !.status = 200,
                !.liveModels =
                    IF validated.type = "static" THEN << >>
                    ELSE slice(getLiveModels, offset, offset + limit),
                !.staticBenchmarks =
                    IF validated.type = "live" THEN << >>
                    ELSE slice(getStaticModels, offset, offset + limit)]

\* A handler that answers an unknown identifier as an unexpected error.
modelById_throws(modelId) ==
    IF getModelById(modelId) = << >>
    THEN ErrorResponse(500, "INTERNAL_ERROR", "An unexpected error occurred", << >>)
    ELSE [NoResponse EXCEPT !.status = 200, !.model = getModelById(modelId)]

\* GET /models/{modelId} after admission: the response for modelId.
modelById(modelId) ==
    IF getModelById(modelId) = << >>
    THEN ErrorResponse(404, "MODEL_NOT_FOUND", "No model found with ID: ",
                       <<modelId>>)
    ELSE [NoResponse EXCEPT !.status = 200, !.model = getModelById(modelId)]

\* GET /health at time t of a process started at time 0.
healthResponse(t) ==
    [NoResponse EXCEPT !.status = 200,
                       !.health = <<[status |-> "ok", uptime |-> t \div 1000]>>]

\* The x-forwarded-for header of a request: absent, empty, or an address.
Headers == {<< >>, <<"">>, <<"ip1">>}

\* request.headers.get('x-forwarded-for') || 'unknown'
clientIdentifier(header) ==
    IF header = << >> THEN "unknown"
    ELSE IF header[1] = "" THEN "unknown"
    ELSE header[1]

\* The observer's count of the /compare requests admitted in the window of
\* one identifier, after a request that is one (isCompare) or not, to which
\* check() returned info: a first admitted call of a window starts it anew.
ComparedAfter(c, info, isCompare) ==
    IF ~info.allowed THEN c
    ELSE (IF info.remaining = MAX_REQUESTS - 1 THEN 0 ELSE c)
             + (IF isCompare THEN 1 ELSE 0)

\* ------------------------------------------------------------ actions
\* A direct call of check(), as the unit tests make it.
Check(identifier) ==
    /\ checkRateLimit(identifier, FALSE)
    /\ UNCHANGED <<now, shadow, compared, apiKey, handlers>>

\* The same call while the observer follows one identifier's intervals.
CheckProbed(identifier, start) ==
    /\ checkRateLimit(identifier, start)
    /\ UNCHANGED <<now, shadow, compared, apiKey, handlers>>

\* The same call, made as well in the reference run, whose table is never
\* swept.
CheckShadowed(identifier) ==
    /\ checkRateLimit(identifier, FALSE)
    /\ shadow' = [requests |-> check(shadow.requests, identifier, now).requests,
                  info |-> check(shadow.requests, identifier, now).info]
    /\ UNCHANGED <<now, compared, apiKey, handlers>>

\* setInterval(() => rateLimiter.cleanup(), 60 * 1000)
Cleanup ==
    /\ requests' = cleanup(requests, now)
    /\ requests' # requests
    /\ UNCHANGED <<now, lastCheck, window, probe, shadow, compared, apiKey, handlers>>

\* The clock moves on to a later instant of the grid.
Tick(grid) ==
    /\ \E t \in grid : t > now /\ now' = t
    /\ UNCHANGED <<requests, lastCheck, window, probe, shadow, compared, apiKey, handlers>>

\* POST /compare arrives at handler h from ip with body: the handler runs to
\* its 429 response, read at time later, or to await request.json().
\* A handler whose response was sent may serve the next request (reuse).
POST(h, ips, bodies, grid, reuse) ==
    /\ handlers[h].pc \in (IF reuse THEN {"idle", "sent"} ELSE {"idle"})
    /\ \E from \in ips :
        /\ checkRateLimit(from, FALSE)
        /\ compared' = [compared EXCEPT ![from] =
              ComparedAfter(@, check(requests, from, now).info, TRUE)]
        /\ LET info == check(requests, from, now).info IN
           IF info.allowed
           THEN /\ \E body \in bodies :
                     handlers' = [handlers EXCEPT ![h] =
                                    [Idle EXCEPT !.pc = "json",
                                                 !.route = "compare",
                                                 !.ip = from, !.body = body]]
                /\ UNCHANGED now
           ELSE \E later \in {now} \cup {t \in grid : t > now} :
                /\ handlers' = [handlers EXCEPT ![h] =
                                   [Idle EXCEPT !.pc = "sent",
                                       !.route = "compare", !.ip = from,
                                       !.response = RateLimitResponse(info, later)]]
                /\ now' = later
    /\ UNCHANGED <<shadow, apiKey>>

\* A GET /models that validates its query before the admission check.
GETModels_validatesFirst(h, ips, queries, grid) ==
    /\ handlers[h].pc \in {"idle", "sent"}
    /\ \E from \in ips, q \in queries :
        /\ checkRateLimit(from, FALSE)
        /\ compared' = [compared EXCEPT ![from] =
              ComparedAfter(@, check(requests, from, now).info, FALSE)]
        /\ LET info == check(requests, from, now).info IN
           handlers' = [handlers EXCEPT ![h] =
                          [Idle EXCEPT !.pc = "sent", !.route = "models",
                              !.ip = from,
                              !.query = IF info.allowed THEN <<q>> ELSE << >>,
                              !.response =
                                  IF info.allowed \/ modelFilterIssue(q) # << >>
                                  THEN listModels(q)
                                  ELSE RateLimitResponse(info, now)]]
    /\ UNCHANGED <<now, shadow, apiKey>>

\* GET /models arrives at handler h from ip with query q: the handler runs to
\* its response, the 429 one read at time later.
GETModels(h, ips, queries, grid) ==
    /\ handlers[h].pc \in {"idle", "sent"}
    /\ \E from \in ips :
        /\ checkRateLimit(from, FALSE)
        /\ compared' = [compared EXCEPT ![from] =
              ComparedAfter(@, check(requests, from, now).info, FALSE)]
        /\ LET info == check(requests, from, now).info IN
           IF info.allowed
           THEN /\ \E q \in queries :
                     handlers' = [handlers EXCEPT ![h] =
                                    [Idle EXCEPT !.pc = "sent",
                                                 !.route = "models",
                                                 !.ip = from, !.query = <<q>>,
                                                 !.response = listModels(q)]]
                /\ UNCHANGED now
           ELSE \E later \in {now} \cup {t \in grid : t > now} :
                /\ handlers' = [handlers EXCEPT ![h] =
                                   [Idle EXCEPT !.pc = "sent",
                                       !.route = "models", !.ip = from,
                                       !.response = RateLimitResponse(info, later)]]
                /\ now' = later
    /\ UNCHANGED <<shadow, apiKey>>

\* GET /models/{modelId} served outside the rate limiter.
GETModel_unlimited(h, ips, ids, grid) ==
    /\ handlers[h].pc \in {"idle", "sent"}
    /\ \E from \in ips, id \in ids :
           handlers' = [handlers EXCEPT ![h] =
                          [Idle EXCEPT !.pc = "params", !.route = "model",
                                       !.ip = from, !.query = <<id>>]]
    /\ UNCHANGED <<now, requests, lastCheck, window, probe, shadow, compared, apiKey>>

\* GET /models/{modelId} arrives at handler h: the handler runs to its 429
\* response or to await params.
GETModel(h, ips, ids, grid) ==
    /\ handlers[h].pc \in {"idle", "sent"}
    /\ \E from \in ips :
        /\ checkRateLimit(from, FALSE)
        /\ compared' = [compared EXCEPT ![from] =
              ComparedAfter(@, check(requests, from, now).info, FALSE)]
        /\ LET info == check(requests, from, now).info IN
           IF info.allowed
           THEN /\ \E id \in ids :
                     handlers' = [handlers EXCEPT ![h] =
                                    [Idle EXCEPT !.pc = "params",
                                                 !.route = "model",
                                                 !.ip = from, !.query = <<id>>]]
                /\ UNCHANGED now
           ELSE \E later \in {now} \cup {t \in grid : t > now} :
                /\ handlers' = [handlers EXCEPT ![h] =
                                   [Idle EXCEPT !.pc = "sent",
                                       !.route = "model", !.ip = from,
                                       !.response = RateLimitResponse(info, later)]]
                /\ now' = later
    /\ UNCHANGED <<shadow, apiKey>>

\* await params settles: the catalog lookup and the response.
ResolveParams(h) ==
    /\ handlers[h].pc = "params"
    /\ handlers' = [handlers EXCEPT ![h].pc = "sent",
                       ![h].response = modelById(handlers[h].query[1])]
    /\ UNCHANGED <<now, requests, lastCheck, window, probe, shadow, compared, apiKey>>

\* A health check behind the rate limiter.
GETHealth_rateLimited(h, ips) ==
    /\ handlers[h].pc \in {"idle", "sent"}
    /\ \E from \in ips :
        /\ checkRateLimit(from, FALSE)
        /\ compared' = [compared EXCEPT ![from] =
              ComparedAfter(@, check(requests, from, now).info, FALSE)]
        /\ LET info == check(requests, from, now).info IN
           handlers' = [handlers EXCEPT ![h] =
                          [Idle EXCEPT !.pc = "sent", !.route = "health",
                              !.ip = from,
                              !.response = IF info.allowed
                                           THEN healthResponse(now)
                                           ELSE RateLimitResponse(info, now)]]
    /\ UNCHANGED <<now, shadow, apiKey>>

\* GET /health arrives at handler h from ip and is answered.
GETHealth(h, ips) ==
    /\ handlers[h].pc \in {"idle", "sent"}
    /\ \E from \in ips :
           handlers' = [handlers EXCEPT ![h] =
                          [Idle EXCEPT !.pc = "sent", !.route = "health",
                                       !.ip = from,
                                       !.response = healthResponse(now)]]
    /\ UNCHANGED <<now, requests, lastCheck, window, probe, shadow, compared, apiKey>>

\* request.json() settles, and a request that fails gets its unit back.
ParseBody_refunds(h) ==
    /\ handlers[h].pc = "json"
    /\ handlers' = [handlers EXCEPT ![h] = parseAndDispatch(handlers[h], now, apiKey)]
    /\ requests' =
          IF /\ parseAndDispatch(handlers[h], now, apiKey).pc = "sent"
             /\ handlers[h].ip \in DOMAIN requests
          THEN [requests EXCEPT ![handlers[h].ip].count = @ - 1]
          ELSE requests
    /\ UNCHANGED <<now, lastCheck, window, probe, shadow, compared, apiKey>>

\* request.json() settles: schema, identifier validation, fan-out.
ParseBody(h) ==
    /\ handlers[h].pc = "json"
    /\ handlers' = [handlers EXCEPT ![h] = parseAndDispatch(handlers[h], now, apiKey)]
    /\ UNCHANGED <<now, requests, lastCheck, window, probe, shadow, compared, apiKey>>

\* One job of handler h takes a step to job'.
JobStep(h, i, job) ==
    /\ handlers' = [handlers EXCEPT ![h].jobs[i] = job]
    /\ UNCHANGED <<now, requests, lastCheck, window, probe, shadow, compared, apiKey>>

\* The first fetch of job i settles with resp.
FetchSettles(h, i, answers) ==
    /\ handlers[h].pc = "all"
    /\ i \in 1..Len(handlers[h].jobs)
    /\ handlers[h].jobs[i].pc = "fetch"
    /\ \E resp \in answers :
           JobStep(h, i, afterFetch(handlers[h].jobs[i], resp, now))

\* sleep(60000) of job i ends, and the fetch is issued again.
SleepEnds(h, i) ==
    /\ handlers[h].pc = "all"
    /\ i \in 1..Len(handlers[h].jobs)
    /\ handlers[h].jobs[i].pc = "sleep"
    /\ now >= handlers[h].jobs[i].wake
    /\ JobStep(h, i, afterSleep(handlers[h].jobs[i]))

\* The retried fetch of job i settles with resp.
RetrySettles(h, i, answers) ==
    /\ handlers[h].pc = "all"
    /\ i \in 1..Len(handlers[h].jobs)
    /\ handlers[h].jobs[i].pc = "retry"
    /\ \E resp \in answers :
           JobStep(h, i, afterRetry(handlers[h].jobs[i], resp, now))

\* A join that gives up the jobs it finds in their cold-start sleep.
AnyRejected_givesUp(jobs) ==
    \E i \in 1..Len(jobs) : jobs[i].state = "rejected" \/ jobs[i].pc = "sleep"

\* Promise.all rejects: one of the promises has rejected.
AnyRejected(jobs) == \E i \in 1..Len(jobs) : jobs[i].state = "rejected"

\* A join that resolves with the first fulfilled promise, as Promise.race.
AllFulfilled_first(jobs) == \E i \in 1..Len(jobs) : jobs[i].state = "fulfilled"

\* Promise.all resolves: every promise has fulfilled.
AllFulfilled(jobs) == \A i \in 1..Len(jobs) : jobs[i].state = "fulfilled"

\* await Promise.all(modelPromises) settles: it rejects as soon as one job
\* has rejected (caught by the handler: 500), else resolves once all have.
Join(h) ==
    /\ handlers[h].pc = "all"
    /\ IF AnyRejected(handlers[h].jobs) THEN TRUE
       ELSE AllFulfilled(handlers[h].jobs)
    /\ handlers' = [handlers EXCEPT ![h].pc = "sent",
          ![h].response =
              IF AnyRejected(handlers[h].jobs)
              THEN ErrorResponse(500, "INTERNAL_ERROR",
                                 "An unexpected error occurred", << >>)
              ELSE CompareResponse(PromiseAll(handlers[h].jobs))]
    /\ UNCHANGED <<now, requests, lastCheck, window, probe, shadow, compared, apiKey>>

Init ==
    /\ now = 0
    /\ requests = << >>
    /\ lastCheck = NoCheck
    /\ window = [id \in Identifiers |-> NoWindow]
    /\ probe = NoProbe
    /\ shadow = NoShadow
    /\ compared = [id \in Identifiers |-> 0]
    /\ apiKey \in BOOLEAN
    /\ handlers = [h \in Handlers |-> Idle]

\* --- the rate limiter alone, called directly
InitLimiter == Init /\ apiKey

NextLimiter ==
    \/ \E id \in Identifiers : Check(id)
    \/ Cleanup
    \/ Tick(Times)

SpecLimiter == InitLimiter /\ [][NextLimiter]_vars

\* --- the rate limiter beside a reference run of the same calls in which
\* the sweep never runs
NextReference ==
    \/ \E id \in Identifiers : CheckShadowed(id)
    \/ Cleanup
    \/ Tick(Times)

SpecReference == InitLimiter /\ [][NextReference]_vars

\* --- the rate limiter with its periodic sweep: the timer fires again and
\* again and the clock moves on while a later instant is left
SweepTimes == {k * (WINDOW_MS \div 2) + k : k \in 0..MaxHalfWindows}

NextSweep ==
    \/ \E id \in Identifiers : Check(id)
    \/ Cleanup
    \/ Tick(SweepTimes)

SpecSweep ==
    /\ InitLimiter
    /\ [][NextSweep]_vars
    /\ WF_vars(Cleanup)
    /\ WF_vars(Tick(SweepTimes))

\* --- one identifier, followed by the interval observer
NextWindow ==
    \/ \E start \in BOOLEAN : CheckProbed("ip1", start)
    \/ Cleanup
    \/ Tick(Times)

SpecWindow == InitLimiter /\ [][NextWindow]_vars

\* --- one POST /compare request with its concurrent jobs
JobTimes == {k * COLD_START_MS : k \in 0..MaxSleeps}

ModelIdInputs == {models[i].id : i \in 1..Len(models)} \cup {"no-such-model"}

SeqsUpTo(S, n) == UNION {[1..k -> S] : k \in 0..n}

MaxTokensInputs ==
    {<< >>, <<Num(0, 1)>>, <<Num(3, 2)>>, <<Num(MAX_TOKENS, 1)>>,
     <<Num(MAX_TOKENS + 1, 1)>>}

CompareBodies ==
    {NotJson}
    \cup {Body(p, ids, mt) : p \in {0, 1, MAX_PROMPT + 1},
                             ids \in SeqsUpTo(ModelIdInputs, MaxBodyIds),
                             mt \in MaxTokensInputs \ {<<Num(MAX_TOKENS, 1)>>}}
    \cup {Body(1, ids, <<Num(MAX_TOKENS, 1)>>) :
              ids \in SeqsUpTo(ModelIdInputs, 1)}
    \cup {Body(MAX_PROMPT, <<id>>, << >>) : id \in ModelIdInputs}

Next ==
    \/ POST("h1", {"ip1"}, CompareBodies, {}, FALSE)
    \/ ParseBody("h1")
    \/ \E i \in 1..MAX_MODELS : FetchSettles("h1", i, Responses)
    \/ \E i \in 1..MAX_MODELS : SleepEnds("h1", i)
    \/ \E i \in 1..MAX_MODELS : RetrySettles("h1", i, Responses)
    \/ Join("h1")
    \/ Tick(JobTimes)

Spec == Init /\ [][Next]_vars

\* --- concurrent requests of one client, admitted through the rate limiter
AdmissionBodies ==
    {NotJson, Body(1, <<"gpt-4">>, << >>), Body(1, <<"codellama-7b">>, << >>)}

AdmissionResponses == {Thrown}

NextAdmission ==
    \/ \E h \in Handlers : POST(h, {"unknown"}, AdmissionBodies, {}, TRUE)
    \/ \E h \in Handlers : ParseBody(h)
    \/ \E h \in Handlers : FetchSettles(h, 1, AdmissionResponses)
    \/ \E h \in Handlers : Join(h)
    \/ Cleanup
    \/ Tick(Times)

SpecAdmission == InitLimiter /\ [][NextAdmission]_vars

\* --- one client's requests, the clock moving on between the admission
\* check and the second reading of the clock for retryAfter
NextRetryAfter ==
    \/ POST("h1", {"ip1"}, {NotJson}, Times, TRUE)
    \/ ParseBody("h1")
    \/ Tick(Times)

SpecRetryAfter == InitLimiter /\ [][NextRetryAfter]_vars

\* --- every route, served to one client by one handler after the other
RouteBodies ==
    {NotJson, Body(0, <<"starcoder">>, << >>), Body(1, <<"starcoder">>, << >>),
     Body(1, <<"gpt-4", "no-such-model">>, << >>)}

RouteQueries ==
    {Query(Null, Null, Null), Query(Text("live"), Null, Null),
     Query(Text("bogus"), Digits(1), Null),
     Query(Text("live"), Digits(1), Null),
     Query(Text("live"), Digits(1), Digits(1)),
     Query(Text("static"), Digits(LIMIT_MAX), Null),
     Query(Text("static"), Digits(LIMIT_MAX + 1), Null),
     Query(Text("live"), NotANumber, Null),
     Query(Text("static"), Digits(1), Digits(-1))}

RouteTimes == {k * (WINDOW_MS \div 2) + k : k \in 0..MaxHalfWindows}

NextRoutes ==
    \/ POST("h1", {"ip1"}, RouteBodies, RouteTimes, TRUE)
    \/ ParseBody("h1")
    \/ FetchSettles("h1", 1, Responses)
    \/ SleepEnds("h1", 1)
    \/ RetrySettles("h1", 1, Responses)
    \/ Join("h1")
    \/ GETModels("h1", {"ip1"}, RouteQueries, RouteTimes)
    \/ GETModel("h1", {"ip1"}, ModelIdInputs, RouteTimes)
    \/ ResolveParams("h1")
    \/ GETHealth("h1", {"ip1"})
    \/ Tick(RouteTimes)

SpecRoutes == InitLimiter /\ [][NextRoutes]_vars

\* --- the three rate-limited routes served to clients with and without an
\* x-forwarded-for header
ClientIdentifiers == {clientIdentifier(header) : header \in Headers}

SharedBodies == {Body(1, <<"gpt-4">>, << >>)}

SharedQueries == {Query(Text("live"), Digits(1), Null)}

NextShared ==
    \/ POST("h1", ClientIdentifiers, SharedBodies, {}, TRUE)
    \/ ParseBody("h1")
    \/ Join("h1")
    \/ GETModels("h1", {clientIdentifier(<< >>)}, SharedQueries, {})
    \/ GETModel("h1", {clientIdentifier(<< >>)}, {"gpt-4"}, {})
    \/ ResolveParams("h1")
    \/ Tick(RouteTimes)

SpecShared == InitLimiter /\ [][NextShared]_vars

\* --- compare requests of up to three live models served one after the
\* other to one client until its window is used up
CallBodies ==
    {NotJson,
     Body(0, <<"starcoder">>, << >>),
     Body(1, <<"starcoder", "no-such-model">>, << >>),
     Body(1, <<"starcoder", "gpt-4", "codellama-7b">>, << >>),
     Body(1, <<"codellama-7b", "starcoder", "codellama-7b">>, << >>)}

CallAnswers ==
    {Thrown, Http(200, <<"abcde">>, << >>), Http(503, << >>, << >>),
     Http(500, << >>, <<"Model too busy">>)}

NextCalls ==
    \/ POST("h1", {"ip1"}, CallBodies, {}, TRUE)
    \/ ParseBody("h1")
    \/ \E i \in 1..MAX_MODELS : FetchSettles("h1", i, CallAnswers)
    \/ \E i \in 1..MAX_MODELS : SleepEnds("h1", i)
    \/ \E i \in 1..MAX_MODELS : RetrySettles("h1", i, CallAnswers)
    \/ Join("h1")
    \/ Tick(JobTimes)

SpecCalls == Init /\ [][NextCalls]_vars

\* --- one or two provider calls with a cold start, on a clock that also
\* shows the instants just after the request and just after the delay
RetryTimes ==
    {k * COLD_START_MS + e : k \in 0..MaxSleeps, e \in 0..MaxSkew}

RetryBodies ==
    {Body(1, <<"starcoder">>, << >>),
     Body(1, <<"starcoder", "codellama-7b">>, << >>)}

RetryAnswers ==
    {Http(503, << >>, << >>), Http(500, << >>, << >>)}
    \cup {Http(200, <<o>>, << >>) : o \in {"abcde", "abcdefghi"}}

NextRetry ==
    \/ POST("h1", {"ip1"}, RetryBodies, {}, FALSE)
    \/ ParseBody("h1")
    \/ \E i \in 1..2 : FetchSettles("h1", i, RetryAnswers)
    \/ \E i \in 1..2 : SleepEnds("h1", i)
    \/ \E i \in 1..2 : RetrySettles("h1", i, RetryAnswers)
    \/ Join("h1")
    \/ Tick(RetryTimes)

SpecRetry == InitLimiter /\ [][NextRetry]_vars

\* --- GET /models alone, over the present, absent and malformed values of
\* its three parameters
ListQueries ==
    {Query(type, limit, offset) :
        type \in {Null, Text("live"), Text("static"), Text("bogus")},
        limit \in {Null, NotANumber, Digits(0), Digits(1), Digits(2),
                   Digits(LIMIT_MAX), Digits(LIMIT_MAX + 1)},
        offset \in {Null, NotANumber, Digits(-1), Digits(0), Digits(1),
                    Digits(2)}}

NextList ==
    \/ GETModels("h1", {"ip1"}, ListQueries, {})
    \/ Tick({WINDOW_MS + 1})

SpecList == InitLimiter /\ [][NextList]_vars

\* --- one provider call, over output texts and elapsed times
MetricOutputs == {"", "a", "abc", "abcd", "abcde", "abcdefgh", "abcdefghi"}

MetricTimes == {0, 1, 999, 1000, 1500, 2000}

MetricResponses == {Http(200, <<o>>, << >>) : o \in MetricOutputs}

NextMetrics ==
    \/ POST("h1", {"ip1"}, {Body(1, <<"starcoder">>, << >>)}, {}, FALSE)
    \/ ParseBody("h1")
    \/ FetchSettles("h1", 1, MetricResponses)
    \/ Join("h1")
    \/ Tick(MetricTimes)

SpecMetrics == InitLimiter /\ [][NextMetrics]_vars

\* --- one compare request of two or three jobs run by the event loop: ready
\* callbacks run, timers fire, the clock moves on, the upstream of the first
\* job answers every call, and the upstream of the other jobs may never
\* answer.  A first answer of 503 comes while the clock can still run through
\* the cold-start delay.
PatientBodies ==
    {Body(1, <<"codellama-7b", "starcoder">>, << >>),
     Body(1, <<"starcoder", "gpt-4", "codellama-7b">>, << >>)}

AnswersInTime ==
    IF now + COLD_START_MS <= MaxSleeps * COLD_START_MS THEN Responses
    ELSE {r \in Responses : r.status # 503}

NextPatient ==
    \/ POST("h1", {"ip1"}, PatientBodies, {}, FALSE)
    \/ ParseBody("h1")
    \/ \E i \in 1..MAX_MODELS : FetchSettles("h1", i, AnswersInTime)
    \/ \E i \in 1..MAX_MODELS : SleepEnds("h1", i)
    \/ \E i \in 1..MAX_MODELS : RetrySettles("h1", i, Responses)
    \/ Join("h1")
    \/ Tick(JobTimes)

SpecPatient ==
    /\ InitLimiter
    /\ [][NextPatient]_vars
    /\ WF_vars(ParseBody("h1"))
    /\ WF_vars(FetchSettles("h1", 1, AnswersInTime))
    /\ WF_vars(RetrySettles("h1", 1, Responses))
    /\ \A i \in 1..MAX_MODELS : WF_vars(SleepEnds("h1", i))
    /\ WF_vars(Join("h1"))
    /\ WF_vars(Tick(JobTimes))

\* ------------------------------------------------------------ claims
\* C1: among the check() calls of one identifier that fall inside one open
\* window, exactly the first MAX_REQUESTS are allowed: a call is allowed
\* if and only if it is at most the MAX_REQUESTS-th call of its window.
C1_FirstNAllowed ==
    lastCheck.id # "" =>
        (lastCheck.info.allowed <=> window[lastCheck.id].calls <= MAX_REQUESTS)

\* C1 witness: the call after the MAX_REQUESTS-th of a window was rejected.
C1_Witness ==
    /\ lastCheck.id # ""
    /\ ~lastCheck.info.allowed
    /\ window[lastCheck.id].calls = MAX_REQUESTS + 1
    /\ window[lastCheck.id].admitted = MAX_REQUESTS

\* C2: a check() made WINDOW_MS or more after the identifier's window was
\* opened is allowed and starts a fresh window: remaining = MAX_REQUESTS - 1
\* and resetTime = the time of the call + WINDOW_MS.
C2_FreshAfterWindow ==
    (/\ lastCheck.id # ""
     /\ lastCheck.prevOpen # -1
     /\ lastCheck.at - lastCheck.prevOpen >= WINDOW_MS)
    => /\ lastCheck.info.allowed
       /\ lastCheck.info.remaining = MAX_REQUESTS - 1
       /\ lastCheck.info.resetTime = lastCheck.at + WINDOW_MS

EntryOf(map, b) == IF b \in DOMAIN map THEN <<map[b]>> ELSE << >>

\* C4: a check(a) leaves the entry of every other identifier b unchanged,
\* and the entry of b is determined by the calls of check(b) alone: its count
\* is the number of b's allowed calls in b's window, its resetTime is the
\* time b's window was opened + WINDOW_MS.
C4_Independent ==
    /\ [][\A a \in Identifiers : window'[a] # window[a] =>
             \A b \in Identifiers \ {a} :
                 EntryOf(requests', b) = EntryOf(requests, b)]_vars
    /\ [](\A b \in DOMAIN requests :
             /\ requests[b].count = window[b].admitted
             /\ requests[b].resetTime = window[b].open + WINDOW_MS)

\* C4 witness: one identifier is exhausted and a call of the other one is
\* allowed as the first of its window.
C4_Witness ==
    /\ "unknown" \in DOMAIN requests
    /\ requests["unknown"].count = MAX_REQUESTS
    /\ now <= requests["unknown"].resetTime
    /\ lastCheck.id = "ip1"
    /\ lastCheck.info.allowed
    /\ lastCheck.info.remaining = MAX_REQUESTS - 1

\* C5: with several invocations of the handler in progress at once, each
\* suspended at its awaits while the others run, no update of the table is
\* lost: the count of an open entry is the number of requests admitted in its
\* window, and a window never admits more than MAX_REQUESTS requests.
C5_AtomicCheck ==
    \A id \in Identifiers :
        /\ window[id].admitted <= MAX_REQUESTS
        /\ (id \in DOMAIN requests /\ now <= requests[id].resetTime)
              => requests[id].count = window[id].admitted

\* C5 witness: one invocation is suspended at await Promise.all with its fetch
\* pending, admitted in the window in which another one has just been rejected
\* as the request after the MAX_REQUESTS-th.
C5_Witness ==
    /\ handlers["h2"].pc = "all"
    /\ handlers["h2"].jobs[1].pc = "fetch"
    /\ handlers["h1"].pc = "sent"
    /\ handlers["h1"].response.status = 429
    /\ handlers["h1"].ip = handlers["h2"].ip
    /\ lastCheck.at <= window[handlers["h1"].ip].open + WINDOW_MS
    /\ handlers["h2"].jobs[1].startTime >= window[handlers["h1"].ip].open
    /\ window[handlers["h1"].ip].admitted = MAX_REQUESTS
    /\ window[handlers["h1"].ip].calls = MAX_REQUESTS + 1

\* An invocation that passed admission, the schema and validateModelIds.
Dispatched(x) == x.modelIds # << >>

\* C6: a request that passed admission and validation answers with exactly one
\* record per requested identifier, each with status success or error and
\* each the record its own job produced; no step changes the record of a job
\* that has settled, whatever the other jobs do.
C6_OneRecordEach ==
    /\ [](\A h \in Handlers :
            (handlers[h].pc = "sent" /\ Dispatched(handlers[h])) =>
                /\ Len(handlers[h].response.results) = Len(handlers[h].modelIds)
                /\ \A i \in 1..Len(handlers[h].response.results) :
                      /\ handlers[h].response.results[i].status
                            \in {"success", "error"}
                      /\ i <= Len(handlers[h].jobs)
                      /\ handlers[h].response.results[i]
                            = handlers[h].jobs[i].result)
    /\ [][\A h \in Handlers :
            (handlers[h].pc = "all" /\ handlers'[h].pc \in {"all", "sent"}) =>
                /\ Len(handlers'[h].jobs) = Len(handlers[h].jobs)
                /\ \A i \in 1..Len(handlers[h].jobs) :
                      handlers[h].jobs[i].pc = "settled"
                          => handlers'[h].jobs[i] = handlers[h].jobs[i]]_vars

\* C6 witness: three identifiers; the first job succeeds, the provider call
\* of the second fails and the third is a static benchmark.
C6_Witness ==
    LET x == handlers["h1"] IN
    /\ x.pc = "sent"
    /\ Len(x.modelIds) = 3
    /\ Len(x.response.results) = 3
    /\ x.response.results[1].status = "success"
    /\ x.response.results[2].status = "error"
    /\ x.jobs[2].calls = 1
    /\ x.response.results[3].status = "error"
    /\ getModelById(x.modelIds[3])[1].type = "static"

\* The modelId a record carries for the catalog identifier id: the provider's
\* identifier of a live model, the identifier itself otherwise.
RecordIdFor(id) ==
    LET model == getModelById(id) IN
    IF model # << >> /\ model[1].type = "live"
    THEN joinSlash(model[1].modelId) ELSE id

\* C7: in a 200 response results[i] is the record of the job dispatched for
\* modelIds[i], in whatever order the jobs settled.
C7_InputOrder ==
    \A h \in Handlers :
        (handlers[h].pc = "sent" /\ handlers[h].response.status = 200) =>
            /\ Len(handlers[h].response.results) = Len(handlers[h].modelIds)
            /\ \A i \in 1..Len(handlers[h].modelIds) :
                  /\ handlers[h].jobs[i].modelId = handlers[h].modelIds[i]
                  /\ handlers[h].response.results[i] = handlers[h].jobs[i].result
                  /\ handlers[h].response.results[i].modelId
                        = RecordIdFor(handlers[h].modelIds[i])

\* C7 witness: two different live models, the second job settled strictly
\* before the first (its elapsed time is shorter).
C7_Witness ==
    LET x == handlers["h1"] IN
    /\ x.pc = "sent"
    /\ x.response.status = 200
    /\ Len(x.modelIds) >= 2
    /\ x.modelIds[1] # x.modelIds[2]
    /\ x.response.results[1].status = "success"
    /\ x.response.results[2].status = "success"
    /\ x.response.results[1].metrics.totalTime
          > x.response.results[2].metrics.totalTime

\* C8: a response is never produced while a job of the request is in flight
\* (awaiting a fetch or in the cold-start sleep), and no job ever rejects: no
\* raw exception reaches the join.
C8_BarrierJoin ==
    \A h \in Handlers :
        /\ \A i \in 1..Len(handlers[h].jobs) : handlers[h].jobs[i].state # "rejected"
        /\ handlers[h].pc = "sent" =>
              \A i \in 1..Len(handlers[h].jobs) :
                  /\ handlers[h].jobs[i].pc = "settled"
                  /\ handlers[h].jobs[i].state = "fulfilled"

\* C8 witness: the response was produced after a job that went through the
\* cold-start sleep, which settled later than a job that made a single call.
C8_Witness ==
    LET x == handlers["h1"] IN
    /\ x.pc = "sent"
    /\ x.response.status = 200
    /\ \E i, j \in 1..Len(x.jobs) :
          /\ x.jobs[i].sleeps = 1
          /\ x.jobs[i].calls = 2
          /\ x.jobs[j].calls = 1
          /\ x.response.results[i].status = "success"
          /\ x.response.results[j].status = "success"
          /\ x.response.results[i].metrics.totalTime
                > x.response.results[j].metrics.totalTime

\* C9: a request that passed admission, the schema and the identifier
\* validation is answered with status 200, whatever its jobs' outcomes.
C9_Always200 ==
    \A h \in Handlers :
        (handlers[h].pc = "sent" /\ Dispatched(handlers[h]))
            => handlers[h].response.status = 200

\* C9 witness: a 200 response all of whose jobs failed at the provider.
C9_Witness ==
    LET x == handlers["h1"] IN
    /\ x.pc = "sent"
    /\ x.response.status = 200
    /\ Len(x.jobs) >= 2
    /\ \A i \in 1..Len(x.jobs) :
          /\ x.jobs[i].calls >= 1
          /\ x.response.results[i].status = "error"

\* C10: in a 200 response successfulModels is the number of records with
\* status success, failedModels the number with status error, and their sum
\* is totalModels, which is the number of requested identifiers.
C10_Counts ==
    \A h \in Handlers :
        (handlers[h].pc = "sent" /\ handlers[h].response.status = 200) =>
            LET r == handlers[h].response IN
            /\ r.metadata.successfulModels =
                  Cardinality({i \in DOMAIN r.results : r.results[i].status = "success"})
            /\ r.metadata.failedModels =
                  Cardinality({i \in DOMAIN r.results : r.results[i].status = "error"})
            /\ r.metadata.successfulModels + r.metadata.failedModels
                  = r.metadata.totalModels
            /\ r.metadata.totalModels = Len(handlers[h].modelIds)

\* C10 witness: three identifiers, one success and two errors.
C10_Witness ==
    LET r == handlers["h1"].response IN
    /\ handlers["h1"].pc = "sent"
    /\ r.status = 200
    /\ r.metadata.totalModels = 3
    /\ r.metadata.successfulModels = 1
    /\ r.metadata.failedModels = 2

\* The jobs of every invocation of the handler.
AllJobs ==
    UNION {{handlers[h].jobs[i] : i \in 1..Len(handlers[h].jobs)} : h \in Handlers}

\* C11: a provider call whose first answer is 503 sleeps COLD_START_MS once
\* and sends the identical request once more; no job sleeps twice or sends a
\* third request, and a second answer that is not a success (503 again, any
\* other status, a failed fetch) ends the job in an error record.
C11_RetryOnce ==
    \A j \in AllJobs :
        /\ j.sleeps <= 1
        /\ j.calls <= 2
        /\ Len(j.sent) = j.calls
        /\ Len(j.seen) <= 2
        /\ (j.seen # << >> /\ j.seen[1].status = 503) =>
              /\ j.sleeps = 1
              /\ j.pc = "sleep" => (j.calls = 1 /\ j.wake >= j.startTime + COLD_START_MS)
              /\ j.pc = "retry" => now >= j.startTime + COLD_START_MS
              /\ j.pc \in {"retry", "settled"} =>
                    (j.calls = 2 /\ j.sent[2] = j.sent[1])
              /\ (Len(j.seen) = 2 /\ j.seen[2].status # 200) =>
                    /\ j.pc = "settled"
                    /\ j.calls = 2
                    /\ j.result.status = "error"
              /\ j.result.status = "success" =>
                    j.result.metrics.totalTime >= COLD_START_MS

\* C11 witness: the first answer was 503 and so was the second one, after
\* the sleep: two requests sent, the job settled with an error record.
C11_Witness ==
    \E j \in AllJobs :
        /\ Len(j.seen) = 2
        /\ j.seen[1].status = 503
        /\ j.seen[2].status = 503
        /\ j.pc = "settled"
        /\ j.result.status = "error"
        /\ j.calls = 2
        /\ now >= COLD_START_MS

JobIs(j, type) ==
    getModelById(j.modelId) # << >> /\ getModelById(j.modelId)[1].type = type

\* C13: the job of a static benchmark is an error record with empty output,
\* zeroed metrics and the fixed message, and it has sent no request upstream
\* and has not slept.
C13_StaticNeverQueried ==
    \A j \in AllJobs :
        JobIs(j, "static") =>
            /\ j.pc = "settled"
            /\ j.state = "fulfilled"
            /\ j.result.status = "error"
            /\ j.result.output = ""
            /\ j.result.metrics = ZeroMetrics
            /\ j.result.error =
                  <<"Static benchmarks cannot be queried live. They display benchmark scores only.">>
            /\ j.calls = 0
            /\ j.sent = << >>
            /\ j.seen = << >>
            /\ j.sleeps = 0

\* C13 witness: a static benchmark requested with the credential present,
\* next to a live model whose job has sent its request.
C13_Witness ==
    /\ apiKey
    /\ handlers["h1"].pc = "all"
    /\ \E j, k \in AllJobs :
          /\ JobIs(j, "static")
          /\ j.result.status = "error"
          /\ JobIs(k, "live")
          /\ k.calls = 1

\* C14: without the credential the job of every live model is an error
\* record with the configuration message and no request is sent upstream;
\* the response of a request for live models only is 200 with
\* failedModels = totalModels.
C14_NoCredential ==
    ~apiKey =>
        /\ \A j \in AllJobs :
              /\ j.sent = << >>
              /\ j.calls = 0
              /\ JobIs(j, "live") =>
                    /\ j.pc = "settled"
                    /\ j.state = "fulfilled"
                    /\ j.result.status = "error"
                    /\ j.result.error = <<"HUGGINGFACE_API_KEY is not configured">>
        /\ \A h \in Handlers :
              (/\ handlers[h].pc = "sent"
               /\ Dispatched(handlers[h])
               /\ \A i \in 1..Len(handlers[h].jobs) :
                      JobIs(handlers[h].jobs[i], "live")) =>
                  /\ handlers[h].response.status = 200
                  /\ handlers[h].response.metadata.totalModels
                        = Len(handlers[h].modelIds)
                  /\ handlers[h].response.metadata.failedModels
                        = handlers[h].response.metadata.totalModels

\* C14 witness: no credential, two different live models requested, the
\* response is 200 with two failed models.
C14_Witness ==
    LET x == handlers["h1"] IN
    /\ ~apiKey
    /\ x.pc = "sent"
    /\ x.response.status = 200
    /\ Len(x.modelIds) = 2
    /\ x.modelIds[1] # x.modelIds[2]
    /\ \A i \in 1..2 : JobIs(x.jobs[i], "live")
    /\ x.response.metadata.failedModels = 2
    /\ x.response.results[1].error = <<"HUGGINGFACE_API_KEY is not configured">>

\* C15: in a 200 response results[i].modelId is the catalog identifier
\* modelIds[i] the caller submitted and results[i].modelName is the name of
\* that catalog entry, for live models and static benchmarks alike.
C15_EchoesIdentifier ==
    \A h \in Handlers :
        (handlers[h].pc = "sent" /\ handlers[h].response.status = 200) =>
            \A i \in 1..Len(handlers[h].response.results) :
                /\ handlers[h].response.results[i].modelId
                      = handlers[h].modelIds[i]
                /\ handlers[h].response.results[i].modelName
                      = getModelById(handlers[h].modelIds[i])[1].name

\* The identifiers of the catalog.
CatalogIds == {models[i].id : i \in 1..Len(models)}

\* An invocation whose body was read, passed the schema and names an
\* identifier that is not in the catalog.
NamesUnknown(x) ==
    /\ x.pc \in {"all", "sent"}
    /\ x.body.json
    /\ schemaIssue(x.body) = << >>
    /\ \E i \in 1..Len(x.body.modelIds) : x.body.modelIds[i] \notin CatalogIds

\* C16: a request that names an identifier the catalog does not resolve is
\* answered 400 VALIDATION_ERROR, the message lists the unresolved
\* identifiers of the body, in the order of the body, and no job exists for
\* any identifier of the request.
C16_UnknownRejectsAll ==
    \A h \in Handlers :
        NamesUnknown(handlers[h]) =>
            /\ handlers[h].pc = "sent"
            /\ handlers[h].response.status = 400
            /\ handlers[h].response.code = "VALIDATION_ERROR"
            /\ handlers[h].response.message =
                  <<"Invalid model IDs: ",
                    SelectSeq(handlers[h].body.modelIds,
                              LAMBDA id : id \notin CatalogIds)>>
            /\ handlers[h].jobs = << >>
            /\ handlers[h].modelIds = << >>
            /\ handlers[h].response.results = << >>

\* C16 witness: a live model and an unknown identifier in one body, the
\* credential present: rejected with the unknown identifier listed.
C16_Witness ==
    LET x == handlers["h1"] IN
    /\ apiKey
    /\ x.pc = "sent"
    /\ Len(x.body.modelIds) = 3
    /\ x.body.modelIds[1] = "no-such-model"
    /\ JobIs([modelId |-> x.body.modelIds[2]], "live")
    /\ x.body.modelIds[3] = "no-such-model"
    /\ x.response.status = 400
    /\ x.response.message[2] = <<"no-such-model", "no-such-model">>
    /\ x.jobs = << >>

\* The body violates a bound of the schema.
OutOfBounds(body) ==
    \/ body.promptLen < 1
    \/ body.promptLen > MAX_PROMPT
    \/ Len(body.modelIds) < 1
    \/ Len(body.modelIds) > MAX_MODELS
    \/ body.maxTokens # << >> /\ body.maxTokens[1].num % body.maxTokens[1].den # 0
    \/ body.maxTokens # << >> /\ body.maxTokens[1].num < body.maxTokens[1].den
    \/ /\ body.maxTokens # << >>
       /\ body.maxTokens[1].num > MAX_TOKENS * body.maxTokens[1].den

\* C17: a body with an empty prompt or one longer than MAX_PROMPT, with no
\* modelIds or more than MAX_MODELS, or with a maxTokens that is not an
\* integer in 1..MAX_TOKENS is answered 400 VALIDATION_ERROR and no job is
\* dispatched; every request sent upstream carries the body's maxTokens,
\* and DEFAULT_MAX_TOKENS when the body has none.
C17_SchemaBounds ==
    \A h \in Handlers :
        (handlers[h].pc \in {"all", "sent"} /\ handlers[h].body.json) =>
            /\ OutOfBounds(handlers[h].body) =>
                  /\ handlers[h].pc = "sent"
                  /\ handlers[h].response.status = 400
                  /\ handlers[h].response.code = "VALIDATION_ERROR"
                  /\ handlers[h].jobs = << >>
            /\ \A i \in 1..Len(handlers[h].jobs) :
                  \A k \in 1..Len(handlers[h].jobs[i].sent) :
                      handlers[h].jobs[i].sent[k].max_new_tokens =
                          IF handlers[h].body.maxTokens = << >>
                          THEN DEFAULT_MAX_TOKENS
                          ELSE handlers[h].body.maxTokens[1].num

\* C17, the default at work: a body without maxTokens whose prompt has the
\* greatest length allowed; its job has sent the request and, after a 503,
\* the retry.
C17_DefaultSent ==
    LET x == handlers["h1"] IN
    /\ x.pc \in {"all", "sent"}
    /\ x.body.json
    /\ x.body.promptLen = MAX_PROMPT
    /\ x.body.maxTokens = << >>
    /\ Len(x.jobs) = 1
    /\ Len(x.jobs[1].sent) = 2
    /\ x.jobs[1].sent[2].max_new_tokens = DEFAULT_MAX_TOKENS

\* C17 witness: a maxTokens that is not an integer, in a body that is
\* otherwise within the bounds, is rejected and nothing is dispatched.
C17_Witness ==
    LET x == handlers["h1"] IN
    /\ x.pc = "sent"
    /\ x.body.json
    /\ x.body.promptLen = 1
    /\ Len(x.body.modelIds) = MAX_MODELS
    /\ \A i \in 1..MAX_MODELS : x.body.modelIds[i] \in CatalogIds
    /\ x.body.maxTokens = <<Num(3, 2)>>
    /\ x.response.status = 400
    /\ x.jobs = << >>

\* C18: a body that names one identifier twice is answered 400
\* VALIDATION_ERROR, and the jobs of one request are for different
\* identifiers.
C18_UniqueModelIds ==
    \A h \in Handlers :
        /\ (/\ handlers[h].pc \in {"all", "sent"}
            /\ handlers[h].body.json
            /\ \E i, k \in 1..Len(handlers[h].body.modelIds) :
                   i # k /\ handlers[h].body.modelIds[i] = handlers[h].body.modelIds[k])
              => /\ handlers[h].pc = "sent"
                 /\ handlers[h].response.status = 400
                 /\ handlers[h].response.code = "VALIDATION_ERROR"
        /\ \A i, k \in 1..Len(handlers[h].jobs) :
              i # k => handlers[h].jobs[i].modelId # handlers[h].jobs[k].modelId

\* C19: a request whose body is not JSON, or is JSON that the schema
\* rejects, is answered 400 VALIDATION_ERROR, never 500.
C19_MalformedIs400 ==
    \A h \in Handlers :
        (/\ handlers[h].pc = "sent"
         /\ handlers[h].response.status # 429
         /\ IF handlers[h].body = NotJson THEN TRUE
            ELSE handlers[h].body.json /\ schemaIssue(handlers[h].body) # << >>)
        => /\ handlers[h].response.status = 400
           /\ handlers[h].response.code = "VALIDATION_ERROR"

\* C20: a 429 response carries resetTime and a retryAfter greater than 0.
C20_RetryAfterPositive ==
    \A h \in Handlers :
        (handlers[h].pc = "sent" /\ handlers[h].response.status = 429) =>
            /\ handlers[h].response.resetTime # << >>
            /\ handlers[h].response.retryAfter # << >>
            /\ handlers[h].response.retryAfter[1] > 0

\* The routes behind the rate limiter.
LimitedRoutes == {"compare", "models", "model"}

C22_HealthUnlimited ==
    /\ [][\A h \in Handlers :
            (handlers'[h] # handlers[h] /\ handlers'[h].route = "health") =>
                UNCHANGED <<requests, window, lastCheck>>]_vars
    /\ [](\A h \in Handlers :
            handlers[h].route = "health" =>
                /\ handlers[h].pc = "sent"
                /\ handlers[h].response.status = 200
                /\ handlers[h].response.health # << >>
                /\ handlers[h].response.health[1].status = "ok")

\* C22 witness: the client's window is open and exhausted, a request of it
\* has been denied, and its GET /health is answered 200.
C22_Witness ==
    LET x == handlers["h1"] IN
    /\ x.route = "health"
    /\ x.response.status = 200
    /\ x.ip \in DOMAIN requests
    /\ requests[x.ip].count = MAX_REQUESTS
    /\ now <= requests[x.ip].resetTime
    /\ window[x.ip].calls > MAX_REQUESTS
    /\ ~lastCheck.info.allowed

\* C23: an admitted GET /models without type, limit and offset is answered
\* 200 with the first LIMIT_DEFAULT entries, from offset 0, of the live and of
\* the static list.
C23_DefaultsServed ==
    \A h \in Handlers :
        (/\ handlers[h].route = "models"
         /\ handlers[h].pc = "sent"
         /\ handlers[h].query = <<Query(Null, Null, Null)>>)
        => /\ handlers[h].response.status = 200
           /\ handlers[h].response.liveModels
                 = slice(getLiveModels, 0, LIMIT_DEFAULT)
           /\ handlers[h].response.staticBenchmarks
                 = slice(getStaticModels, 0, LIMIT_DEFAULT)

\* C24: an admitted GET /models/{modelId} is answered 200 with the catalog
\* entry of that identifier when there is one, and 404 MODEL_NOT_FOUND when
\* there is none; it is never answered 500.
C24_ModelOr404 ==
    \A h \in Handlers :
        (/\ handlers[h].route = "model"
         /\ handlers[h].pc = "sent"
         /\ handlers[h].query # << >>)
        => /\ handlers[h].response.status # 500
           /\ IF handlers[h].query[1] \in CatalogIds
              THEN /\ handlers[h].response.status = 200
                   /\ Len(handlers[h].response.model) = 1
                   /\ handlers[h].response.model[1].id = handlers[h].query[1]
                   /\ \E i \in 1..Len(models) :
                          models[i] = handlers[h].response.model[1]
              ELSE /\ handlers[h].response.status = 404
                   /\ handlers[h].response.code = "MODEL_NOT_FOUND"
                   /\ handlers[h].response.model = << >>

\* C24 witness: an admitted request for an identifier the catalog does not
\* hold was answered 404.
C24_Witness ==
    LET x == handlers["h1"] IN
    /\ x.route = "model"
    /\ x.pc = "sent"
    /\ x.query = <<"no-such-model">>
    /\ x.response.status = 404
    /\ x.response.message[2] = <<"no-such-model">>

\* C24, the other case: an admitted request for a static benchmark was
\* answered 200 with its entry.
C24_Found ==
    LET x == handlers["h1"] IN
    /\ x.route = "model"
    /\ x.pc = "sent"
    /\ x.query = <<"gpt-4">>
    /\ x.response.status = 200
    /\ x.response.model[1].name = "GPT-4"

C26_Metrics ==
    \A j \in AllJobs :
        j.result.status = "success" =>
            LET m == j.result.metrics
                len == Len(j.result.output)
            IN  /\ 4 * m.tokenCount >= len
                /\ 4 * (m.tokenCount - 1) < len
                /\ m.totalTime >= 0
                /\ m.tokensPerSecond[2] > 0
                /\ m.tokensPerSecond[1] >= 0
                /\ IF m.totalTime > 0
                   THEN m.tokensPerSecond[1] * m.totalTime
                           = m.tokenCount * 1000 * m.tokensPerSecond[2]
                   ELSE m.tokensPerSecond[1] = 0
                /\ len = 0 => (m.tokenCount = 0 /\ m.tokensPerSecond[1] = 0)

\* C26 witness: an output of 5 characters received after 1.5 seconds: 2
\* tokens, 2000 / 1500 tokens per second.
C26_Witness ==
    \E j \in AllJobs :
        /\ j.result.status = "success"
        /\ Len(j.result.output) = 5
        /\ j.result.metrics.totalTime = 1500
        /\ j.result.metrics.tokenCount = 2
        /\ j.result.metrics.tokensPerSecond = <<2000, 1500>>

\* C26, the elapsed time of 0: a non-empty output with throughput 0.
C26_ZeroElapsed ==
    \E j \in AllJobs :
        /\ j.result.status = "success"
        /\ Len(j.result.output) = 9
        /\ j.result.metrics.totalTime = 0
        /\ j.result.metrics.tokenCount = 3
        /\ j.result.metrics.tokensPerSecond = <<0, 1>>

\* C27: an entry whose window has expired (the clock is past its resetTime)
\* is eventually removed from the table, unless a further check() of its
\* identifier replaces it by the entry of a new window; and no step removes
\* an entry whose window is still open.
C27_SweepRemovesExpired ==
    /\ \A id \in Identifiers :
          (id \in DOMAIN requests /\ now > requests[id].resetTime)
              ~> (id \notin DOMAIN requests \/ now <= requests[id].resetTime)
    /\ [][\A id \in DOMAIN requests :
              id \notin DOMAIN requests' => now > requests[id].resetTime]_vars

\* C27 witness: the sweep has removed the expired entry of one identifier
\* and kept the open entry of the other.
C27_Witness ==
    /\ "ip1" \notin DOMAIN requests
    /\ window["ip1"].open # -1
    /\ now > window["ip1"].open + WINDOW_MS
    /\ "unknown" \in DOMAIN requests
    /\ now <= requests["unknown"].resetTime

\* The positions 1..p of ids whose identifier is, or is not, in the catalog.
Resolvable(ids, p) == {q \in 1..p : ids[q] \in CatalogIds}
Unresolvable(ids, p) == {q \in 1..p : ids[q] \notin CatalogIds}

\* C28: for the modelIds of every request body, validateModelIds puts each
\* position of the input in exactly one list, valid when its identifier is in
\* the catalog and invalid when not, in the order of the input and with
\* repeated identifiers repeated; the step that parses the body dispatches
\* the valid list or reports the invalid one, and an unknown identifier
\* never gives a 500.
C28_Partition ==
    [][\A h \in Handlers :
        (/\ handlers[h].pc = "json"
         /\ handlers'[h].pc # "json"
         /\ handlers[h].body.json) =>
            LET ids == handlers[h].body.modelIds
                r == validateModelIds(ids)
                after == handlers'[h]
            IN  /\ Len(r.valid) = Cardinality(Resolvable(ids, Len(ids)))
                /\ Len(r.invalid) = Cardinality(Unresolvable(ids, Len(ids)))
                /\ \A p \in Resolvable(ids, Len(ids)) :
                      r.valid[Cardinality(Resolvable(ids, p))] = ids[p]
                /\ \A p \in Unresolvable(ids, Len(ids)) :
                      r.invalid[Cardinality(Unresolvable(ids, p))] = ids[p]
                /\ after.response.status # 500
                /\ schemaIssue(handlers[h].body) = << >> =>
                      IF r.invalid # << >>
                      THEN after.response.message[2] = r.invalid
                      ELSE /\ Len(after.jobs) = Len(r.valid)
                           /\ \A i \in 1..Len(r.valid) :
                                 after.jobs[i].modelId = r.valid[i]]_vars

\* C28 witness: an unknown identifier between two occurrences of a known
\* one: the known one is twice in valid, the request is refused with the
\* unknown one listed.
C28_Witness ==
    LET x == handlers["h1"] IN
    /\ x.pc = "sent"
    /\ x.body.json
    /\ x.body.promptLen = 1
    /\ x.body.modelIds = <<"starcoder", "no-such-model", "starcoder">>
    /\ validateModelIds(x.body.modelIds).valid = <<"starcoder", "starcoder">>
    /\ x.response.status = 400
    /\ x.response.message[2] = <<"no-such-model">>

\* C28, the valid list at work: a known identifier repeated around another
\* one is dispatched in input order, repetition included.
C28_Dispatched ==
    LET x == handlers["h1"] IN
    /\ x.pc = "all"
    /\ x.body.modelIds = <<"starcoder", "gpt-4", "starcoder">>
    /\ Len(x.jobs) = 3
    /\ x.jobs[1].modelId = "starcoder"
    /\ x.jobs[2].modelId = "gpt-4"
    /\ x.jobs[3].modelId = "starcoder"

\* A job other than the first is waiting for its upstream to answer.
Hanging ==
    /\ handlers["h1"].pc = "all"
    /\ \E i \in 2..Len(handlers["h1"].jobs) :
          handlers["h1"].jobs[i].pc \in {"fetch", "retry"}

\* The first job of the request has settled.
FirstSettled ==
    /\ handlers["h1"].jobs # << >>
    /\ handlers["h1"].jobs[1].pc = "settled"

C30_Returns ==
    lastCheck.id # "" =>
        LET w == window[lastCheck.id]
            info == lastCheck.info
        IN  /\ info.resetTime = w.open + WINDOW_MS
            /\ IF info.allowed
               THEN /\ w.admitted \in 1..MAX_REQUESTS
                    /\ info.remaining = MAX_REQUESTS - w.admitted
               ELSE /\ w.admitted = MAX_REQUESTS
                    /\ info.remaining = 0

\* C30 witness: the last admitted check() of a window opened after time 0,
\* made at a later instant than the opening one.
C30_Witness ==
    /\ lastCheck.id # ""
    /\ lastCheck.info.allowed
    /\ window[lastCheck.id].admitted = MAX_REQUESTS
    /\ window[lastCheck.id].open > 0
    /\ lastCheck.at > window[lastCheck.id].open
    /\ lastCheck.info.remaining = 0

\* C30: a rejected check() of a window opened after time 0 is reached too.
C30_Rejected ==
    /\ lastCheck.id # ""
    /\ ~lastCheck.info.allowed
    /\ window[lastCheck.id].open > 0
    /\ lastCheck.at > window[lastCheck.id].open
    /\ lastCheck.info.resetTime = window[lastCheck.id].open + WINDOW_MS

\* C31: a step in which check() rejects leaves the whole table as it was,
\* count and resetTime of every entry included, and the rejected caller is
\* told the expiry of the window as it was opened.
C31_RejectLeavesTable ==
    [][(window' # window /\ ~lastCheck'.info.allowed) =>
          /\ requests' = requests
          /\ lastCheck'.id \in DOMAIN requests
          /\ lastCheck'.info.resetTime = requests[lastCheck'.id].resetTime
          /\ lastCheck'.info.resetTime
                = window[lastCheck'.id].open + WINDOW_MS]_vars

\* C31 witness: a second rejected call in one window, made at a later
\* instant than the call that opened it.
C31_Witness ==
    /\ lastCheck.id # ""
    /\ ~lastCheck.info.allowed
    /\ window[lastCheck.id].calls >= MAX_REQUESTS + 2
    /\ lastCheck.at > window[lastCheck.id].open
    /\ requests[lastCheck.id].resetTime = window[lastCheck.id].open + WINDOW_MS

\* C32: every entry of the table has a count from 1 to MAX_REQUESTS, and
\* the resetTime of an entry changes only in a step in which check() of that
\* identifier arrives after the stored resetTime; the entry is then replaced
\* by one with count 1 and resetTime = the time of the call + WINDOW_MS.
C32_EntryInvariant ==
    /\ [](\A b \in DOMAIN requests : requests[b].count \in 1..MAX_REQUESTS)
    /\ [][\A b \in DOMAIN requests \cap DOMAIN requests' :
             requests'[b].resetTime # requests[b].resetTime =>
                 /\ window'[b] # window[b]
                 /\ lastCheck'.id = b
                 /\ now > requests[b].resetTime
                 /\ requests'[b] = [count |-> 1, resetTime |-> now + WINDOW_MS]]_vars

\* C32 witness: the entry of one identifier has just been replaced, with
\* count 1, by a call after its window, while the entry of the other one
\* is full.
C32_Witness ==
    /\ lastCheck.id = "ip1"
    /\ lastCheck.prevOpen >= 0
    /\ lastCheck.at > lastCheck.prevOpen + WINDOW_MS
    /\ "ip1" \in DOMAIN requests
    /\ requests["ip1"] = [count |-> 1, resetTime |-> lastCheck.at + WINDOW_MS]
    /\ "unknown" \in DOMAIN requests
    /\ requests["unknown"].count = MAX_REQUESTS

\* C33: with cleanup() run at any instants between the calls, every check()
\* returns what the same call returns in the run of the same calls at the
\* same instants in which cleanup() never runs, and the two tables differ
\* only in entries whose resetTime has passed.
C33_SweepInvisible ==
    /\ shadow.info = lastCheck.info
    /\ \A id \in DOMAIN shadow.requests :
          IF id \in DOMAIN requests
          THEN requests[id] = shadow.requests[id]
          ELSE now > shadow.requests[id].resetTime
    /\ DOMAIN requests \subseteq DOMAIN shadow.requests

\* C33 witness: a call made after the window of its identifier had expired
\* opens a new window, while the sweep has removed the expired entry of the
\* other identifier, which the reference run still holds.
C33_Witness ==
    /\ lastCheck.id = "ip1"
    /\ lastCheck.info.allowed
    /\ lastCheck.prevOpen >= 0
    /\ lastCheck.at > lastCheck.prevOpen + WINDOW_MS
    /\ shadow.info.remaining = MAX_REQUESTS - 1
    /\ "unknown" \in DOMAIN shadow.requests
    /\ "unknown" \notin DOMAIN requests

\* A request has just arrived at handler h on one of the limited routes.
Arrives(h) ==
    /\ handlers[h].pc \in {"idle", "sent"}
    /\ handlers'[h] # handlers[h]
    /\ handlers'[h].route \in LimitedRoutes

\* C34: a request without an x-forwarded-for header is counted under the
\* identifier 'unknown'; a request arriving on any of the three limited
\* routes is one call of check() on the one table, under its identifier; the
\* count of an open entry is the number of requests admitted in its window
\* on the three routes together, of which the /compare requests are a part;
\* and a request is answered 429 exactly when its window had admitted
\* MAX_REQUESTS requests, on whatever routes.
C34_SharedBudget ==
    /\ [](\A header \in Headers :
             (header = << >> => clientIdentifier(header) = "unknown")
             /\ clientIdentifier(header) \in Identifiers)
    /\ [][\A h \in Handlers : Arrives(h) =>
             /\ lastCheck'.id = handlers'[h].ip
             /\ lastCheck'.at = now
             /\ window'[handlers'[h].ip].calls
                   = IF window'[handlers'[h].ip].open = window[handlers'[h].ip].open
                     THEN window[handlers'[h].ip].calls + 1 ELSE 1
             /\ (handlers'[h].response.status = 429)
                   <=> (/\ window[handlers'[h].ip].admitted = MAX_REQUESTS
                        /\ now <= window[handlers'[h].ip].open + WINDOW_MS)]_vars
    /\ [](\A id \in Identifiers :
             /\ compared[id] <= window[id].admitted
             /\ window[id].admitted <= MAX_REQUESTS
             /\ (id \in DOMAIN requests /\ now <= requests[id].resetTime)
                   => requests[id].count = window[id].admitted)

\* C34 witness: a /compare request without the header is answered 429 in a
\* window in which fewer than MAX_REQUESTS /compare requests, here a single
\* one, were admitted under 'unknown'.
C34_Witness ==
    /\ handlers["h1"].pc = "sent"
    /\ handlers["h1"].route = "compare"
    /\ handlers["h1"].ip = clientIdentifier(<< >>)
    /\ handlers["h1"].response.status = 429
    /\ lastCheck.id = "unknown"
    /\ ~lastCheck.info.allowed
    /\ compared["unknown"] = 1
    /\ window["unknown"].admitted = MAX_REQUESTS

\* The statuses of the request-level failures that follow admission.
FailureStatuses == {400, 404, 500}

\* C35: no step after admission gives a unit back: the steps in which a
\* handler goes on from an await leave the table as it is, and a request
\* that was admitted and then answered 400, 404 or 500 is still counted in
\* the entry of its identifier.
C35_NoRollback ==
    /\ [][\A h \in Handlers :
             (handlers[h].pc \in {"json", "params", "all"}
                 /\ handlers'[h] # handlers[h]) => requests' = requests]_vars
    /\ [](\A h \in Handlers :
             (/\ handlers[h].pc = "sent"
              /\ handlers[h].route \in LimitedRoutes
              /\ handlers[h].response.status \in FailureStatuses) =>
                 /\ handlers[h].ip \in DOMAIN requests
                 /\ lastCheck.id = handlers[h].ip
                 /\ lastCheck.info.allowed
                 /\ requests[handlers[h].ip].count
                       = MAX_REQUESTS - lastCheck.info.remaining
                 /\ requests[handlers[h].ip].count = window[handlers[h].ip].admitted)

\* C35 witness: the last unit of a window went to a /compare request whose
\* body is not JSON and which was answered 500.
C35_Witness ==
    /\ handlers["h1"].pc = "sent"
    /\ handlers["h1"].route = "compare"
    /\ handlers["h1"].body = NotJson
    /\ handlers["h1"].response.status = 500
    /\ lastCheck.info.allowed
    /\ lastCheck.info.remaining = 0
    /\ requests[handlers["h1"].ip].count = MAX_REQUESTS

\* C35: a GET answered 404 and a request answered 400 that took a unit are
\* reached too.
C35_NotFound ==
    /\ handlers["h1"].pc = "sent"
    /\ handlers["h1"].response.status = 404
    /\ requests[handlers["h1"].ip].count = 2

C35_Invalid ==
    /\ handlers["h1"].pc = "sent"
    /\ handlers["h1"].response.status = 400
    /\ handlers["h1"].route = "models"
    /\ requests[handlers["h1"].ip].count = 2

\* C36: every record of a compare response has status success or error,
\* never loading; its status is error exactly when it carries an error
\* description; and an error record has an empty output and totalTime,
\* tokenCount and tokensPerSecond all 0.
C36_RecordShape ==
    [][\A h \in Handlers :
          (handlers[h].pc = "all" /\ handlers'[h].pc = "sent") =>
              \A i \in 1..Len(handlers'[h].response.results) :
                  LET r == handlers'[h].response.results[i] IN
                  /\ r.status \in {"success", "error"}
                  /\ (r.status = "error") <=> (r.error # << >>)
                  /\ r.status = "error" =>
                        /\ r.output = ""
                        /\ r.metrics.totalTime = 0
                        /\ r.metrics.tokenCount = 0
                        /\ r.metrics.tokensPerSecond[1] = 0]_vars

\* C36 witness: a response of three records whose first is the error of a
\* retry that failed, whose second is a success with a text and whose third
\* is the error of a first call that failed.
C36_Witness ==
    LET x == handlers["h1"] IN
    /\ x.pc = "sent"
    /\ x.response.status = 200
    /\ Len(x.response.results) = 3
    /\ x.response.results[1].status = "error"
    /\ x.jobs[1].calls = 2
    /\ x.response.results[2].status = "success"
    /\ x.response.results[2].output # ""
    /\ x.response.results[2].error = << >>
    /\ x.response.results[3].status = "error"
    /\ x.jobs[3].calls = 1

\* The number of requests the jobs have sent upstream.
RECURSIVE upstreamCalls(_)
upstreamCalls(jobs) ==
    IF jobs = << >> THEN 0
    ELSE Len(jobs[1].sent) + upstreamCalls(Tail(jobs))

\* The number of requests the jobs have sent upstream for identifier id.
RECURSIVE upstreamCallsFor(_, _)
upstreamCallsFor(jobs, id) ==
    IF jobs = << >> THEN 0
    ELSE (IF jobs[1].modelId = id THEN Len(jobs[1].sent) ELSE 0)
             + upstreamCallsFor(Tail(jobs), id)

\* C37: a compare request has sent at most 2 requests upstream for each live
\* identifier it names, none for a static benchmark, and at most
\* 2 * MAX_MODELS in all; and a request answered 429, 400 or 500 has sent
\* none.
C37_UpstreamCalls ==
    \A h \in Handlers :
        /\ \A id \in CatalogIds : upstreamCallsFor(handlers[h].jobs, id) <= 2
        /\ \A i \in 1..Len(handlers[h].jobs) :
              JobIs(handlers[h].jobs[i], "static")
                  => handlers[h].jobs[i].sent = << >>
        /\ upstreamCalls(handlers[h].jobs) <= 2 * MAX_MODELS
        /\ (handlers[h].pc = "sent" /\ handlers[h].response.status # 200)
              => /\ handlers[h].response.status \in {429, 400, 500}
                 /\ upstreamCalls(handlers[h].jobs) = 0

\* C37, counted by job: a compare request has at most MAX_MODELS jobs, each
\* of which has sent at most 2 requests upstream, none for a static
\* benchmark, so at most 2 * MAX_MODELS in all; and a request answered 429,
\* 400 or 500 has sent none.
C37_PerJob ==
    \A h \in Handlers :
        /\ Len(handlers[h].jobs) <= MAX_MODELS
        /\ \A i \in 1..Len(handlers[h].jobs) :
              /\ Len(handlers[h].jobs[i].sent) <= 2
              /\ handlers[h].jobs[i].calls = Len(handlers[h].jobs[i].sent)
              /\ JobIs(handlers[h].jobs[i], "static")
                    => handlers[h].jobs[i].sent = << >>
        /\ upstreamCalls(handlers[h].jobs) <= 2 * MAX_MODELS
        /\ (handlers[h].pc = "sent" /\ handlers[h].response.status # 200)
              => /\ handlers[h].response.status \in {429, 400, 500}
                 /\ upstreamCalls(handlers[h].jobs) = 0

\* C37: a request of three live entries has sent two requests upstream for
\* each of them and is answered 200.
C37_Witness ==
    /\ handlers["h1"].pc = "sent"
    /\ handlers["h1"].response.status = 200
    /\ upstreamCalls(handlers["h1"].jobs) = 2 * MAX_MODELS

\* C37: the requests answered 429, 400 and 500 are reached, the 400 one for
\* a body that names a live model beside an unknown one.
C37_Denied ==
    /\ handlers["h1"].pc = "sent"
    /\ handlers["h1"].response.status = 429
    /\ handlers["h1"].jobs = << >>

C37_Invalid ==
    /\ handlers["h1"].pc = "sent"
    /\ handlers["h1"].response.status = 400
    /\ Len(handlers["h1"].body.modelIds) = 2

C37_Failed ==
    /\ handlers["h1"].pc = "sent"
    /\ handlers["h1"].response.status = 500
    /\ handlers["h1"].route = "compare"
    /\ requests["ip1"].count = 1

\* C38: the start of the measurement is taken when the job is dispatched,
\* before its first upstream call, and neither the answer 503 nor the delay
\* moves it; a job that succeeds reports as totalTime the time from that
\* start to the answer it read last, which on the retry path is at least
\* the cold-start delay of 60 seconds, and its tokensPerSecond is its
\* tokenCount over that totalTime.
C38_ElapsedFromStart ==
    /\ [](\A j \in AllJobs :
             (j.pc \in {"sleep", "retry"} => j.startTime >= 0)
             /\ (j.pc = "sleep" => j.wake >= j.startTime + COLD_START_MS)
             /\ (j.pc = "retry" => now >= j.startTime + COLD_START_MS))
    /\ [][\A i \in 1..Len(handlers["h1"].jobs) :
             LET before == handlers["h1"].jobs[i]
                 after == handlers'["h1"].jobs[i]
             IN  /\ (before.pc = "fetch" /\ after.pc \in {"sleep", "retry"})
                       => after.startTime = before.startTime
                 /\ (before.pc = "sleep" /\ after.pc = "retry")
                       => after.startTime = before.startTime
                 /\ (before.pc \in {"fetch", "retry"}
                        /\ after.result.status = "success") =>
                       /\ after.result.metrics.totalTime = now - before.startTime
                       /\ before.pc = "retry" =>
                             after.result.metrics.totalTime >= COLD_START_MS
                       /\ after.result.metrics.tokensPerSecond =
                             IF after.result.metrics.totalTime > 0
                             THEN <<after.result.metrics.tokenCount * 1000,
                                    after.result.metrics.totalTime>>
                             ELSE <<0, 1>>]_vars

\* C38 witness: a job dispatched at time 0 whose first call was answered 503
\* has succeeded on the retry, read after the delay and one more millisecond,
\* and reports that time and 3 tokens over it.
C38_Witness ==
    LET x == handlers["h1"] IN
    /\ x.jobs # << >>
    /\ x.jobs[1].calls = 2
    /\ x.jobs[1].sleeps = 1
    /\ x.jobs[1].result.status = "success"
    /\ x.jobs[1].result.metrics.totalTime = COLD_START_MS + 1
    /\ x.jobs[1].result.metrics.tokensPerSecond = <<3 * 1000, COLD_START_MS + 1>>

\* The positions of the catalog entries of one kind, and the k-th of them.
OfKind(kind) == {p \in 1..Len(models) : models[p].type = kind}
NthOfKind(kind, k) ==
    CHOOSE p \in OfKind(kind) :
        Cardinality({q \in OfKind(kind) : q <= p}) = k

\* The list is the entries offset + 1 .. offset + limit of the catalog's
\* entries of one kind, in catalog order, as far as there are any.
IsSliceOfKind(list, kind, offset, limit) ==
    LET n == Cardinality(OfKind(kind))
        rest == IF n > offset THEN n - offset ELSE 0
    IN  /\ Len(list) = (IF rest < limit THEN rest ELSE limit)
        /\ \A i \in 1..Len(list) : list[i] = models[NthOfKind(kind, offset + i)]

\* The number a parameter of the query stands for: 0 when it is absent.
NumberOf(v) == IF v.kind = "digits" THEN v.n ELSE 0

C39_PastEnd ==
    /\ handlers["h1"].response.status = 200
    /\ handlers["h1"].query = <<Query(Text("live"), Digits(LIMIT_MAX), Digits(2))>>
    /\ handlers["h1"].response.liveModels = << >>

C39_Rejected ==
    /\ handlers["h1"].response.status = 400
    /\ handlers["h1"].query = <<Query(Text("static"), Digits(1), Digits(-1))>>

\* C40: every identifier the handler dispatches resolves in the catalog, so
\* the step that dispatches the jobs settles none of them with the error
\* 'Model not found', and no compare response answered 200 holds a record
\* with that error.
C40_NotFoundUnreachable ==
    [][\A h \in Handlers :
          /\ (handlers[h].pc = "json" /\ handlers'[h].pc # "json") =>
                \A i \in 1..Len(handlers'[h].jobs) :
                    LET j == handlers'[h].jobs[i] IN
                    /\ getModelById(j.modelId) # << >>
                    /\ j.result.status = "error"
                          => j.result.error # <<"Model not found">>
          /\ (handlers[h].pc = "all" /\ handlers'[h].pc = "sent"
                 /\ handlers'[h].response.status = 200) =>
                \A i \in 1..Len(handlers'[h].response.results) :
                    handlers'[h].response.results[i].error
                        # <<"Model not found">>]_vars

\* C40 witness: a request of three identifiers, all of the catalog, the
\* first of them named again as the third, is answered 200 with three
\* records.
C40_Witness ==
    LET x == handlers["h1"] IN
    /\ x.pc = "sent"
    /\ x.response.status = 200
    /\ Len(x.body.modelIds) = MAX_MODELS
    /\ x.body.modelIds[1] = x.body.modelIds[3]
    /\ Len(x.response.results) = MAX_MODELS
    /\ \A i \in 1..MAX_MODELS : x.body.modelIds[i] \in CatalogIds

\* C40: a body that names an unknown identifier beside known ones is
\* answered 400 and dispatches nothing.
C40_Unknown ==
    LET x == handlers["h1"] IN
    /\ x.pc = "sent"
    /\ x.response.status = 400
    /\ NamesUnknown(x)
    /\ \E i \in 1..Len(x.body.modelIds) : x.body.modelIds[i] \in CatalogIds
    /\ x.jobs = << >>

====
